---- MODULE Spec2Model ----
(***************************************************************************)
(* The compilation-report decoder of the poplar test utilities:            *)
(* ReportJSON.parse_events, TensorMap and the derived queries of           *)
(* tensorflow/compiler/plugin/poplar/tests/test_utils.py.                  *)
(*                                                                         *)
(* parse_events is modelled statement by statement: the call binds its     *)
(* arguments (ParseCall), the expected-count check runs (CheckLen), the    *)
(* decoded attributes are reset, the loop handles one trace event per step *)
(* (LoopStep) and the histogram is returned (Return).  The events of the   *)
(* list are drawn when the loop reads them; `input' records the part of    *)
(* the list read so far.                                                   *)
(*                                                                         *)
(* The module also holds the infeed queue of                               *)
(* tensorflow/python/ipu/ipu_infeed_queue.py: IPUInfeedQueue.__init__,     *)
(* _dequeue, dequeued, initializer and get_next, on one queue object, and   *)
(* three more pieces of the test utilities and tests: configure_ipu_system *)
(* (the options it builds and the hardware configuration it runs), the     *)
(* frontend_attribute scopes exercised by frontend_attributes_test.py, and *)
(* the worklist of move_variable_initialization_to_cpu.                    *)
(***************************************************************************)
EXTENDS Integers, Sequences, FiniteSets, TLC

VARIABLES
  has_attrs,        \* self.events / tensor_map / instruction_info exist
  events,           \* self.events: dict from event kind to decoded payload
  tensor_map,       \* self.tensor_map: <<>> is None, <<tm>> a TensorMap
  instruction_info, \* self.instruction_info
  pc,               \* "idle" | "check" | "loop": position in parse_events
  n,                \* len(events) of the call in flight (or the last call)
  assert_len,       \* the assert_len argument while it is live: <<>> is None
  assert_msg,       \* the assert_msg argument while it is live
  events_types,     \* the local histogram of the call
  input,            \* the events of the list read so far by the call
  result,           \* how the last call ended, "running" while in flight
  ret,              \* the returned histogram (empty unless result = "returned")
  err_msg,          \* the message carried by a failed expected-count check
  redecode,         \* the call in flight (or the last one) reset a used object
  qres,             \* the answer of the last query made through a query action
  queue,            \* the IPUInfeedQueue: <<>> before it is built, else <<self>>
  graph,            \* the operations and datasets created so far, in order
  last,             \* the last operation on the queue, with its outcome
  calls,            \* the arguments of __init__ and the calls made since
  opts,             \* the IpuOptions of the last configure_ipu_system call
  sess_runs,        \* the options of every ipu_configure_hardware op run
  cfg_call,         \* the last configure_ipu_system call: <<>> or <<call>>
  attr_scopes,      \* the frontend_attribute scopes entered and not yet left
  created,          \* the ops created so far, in order, with their attributes
  mgraph,           \* the default graph: <<>> before it is built, else <<g>>
  dep_ops,          \* the worklist of move_variable_initialization_to_cpu
  visited,          \* its visited set
  init_ops,         \* its list of ops to move
  mv_pc             \* "idle" | "loop" | "done": its position

report_vars ==
  <<has_attrs, events, tensor_map, instruction_info, pc, n, assert_len,
    assert_msg, events_types, input, result, ret, err_msg, redecode, qres>>

queue_vars == <<queue, graph, last, calls>>

system_vars == <<opts, sess_runs, cfg_call>>

scope_vars == <<attr_scopes, created>>

move_vars == <<mgraph, dep_ops, visited, init_ops, mv_pc>>

tool_vars == <<system_vars, scope_vars, move_vars>>

vars == <<report_vars, queue_vars, tool_vars>>

(***************************************************************************)
(* Bounds of the model.                                                    *)
(***************************************************************************)
MaxLen == 3
MaxTiles == 18
MaxIPUs == 14

(***************************************************************************)
(* Trace events and their payload texts.                                   *)
(***************************************************************************)
Kinds == {"COMPILE_BEGIN", "COMPILE_END", "HOST_TO_DEVICE_TRANSFER",
          "DEVICE_TO_HOST_TRANSFER", "LOAD_ENGINE", "EXECUTE"}

SingletonKinds == {"COMPILE_END", "HOST_TO_DEVICE_TRANSFER",
                   "DEVICE_TO_HOST_TRANSFER"}

\* A payload text: enc says what the bytes are ("empty", "json": valid UTF-8
\* holding valid JSON, "bad_utf8", "bad_json": valid UTF-8 that is no JSON);
\* val is the JSON value the text encodes when enc = "json".
Txt(enc, val) == [enc |-> enc, val |-> val]

EmptyDict == [x \in {} |-> x]

None == <<>>

\* The JSON of a data-transfer payload.
TransferJson(name) == [tensors |-> <<[name |-> name]>>]

NoTransferJson == [tensors |-> <<>>]

\* The JSON of an execution report.
ExecJson(id) == [report |-> id]

NoExecJson == [report |-> ""]

\* The JSON of a compilation report of a target of I IPUs and T tiles.
ReportJson(I, T) ==
  [target |-> [numIPUs |-> I, numTiles |-> T],
   memory |-> [byTile |-> [total |-> [i \in 1..T |-> 10 * i]],
               liveness |-> [alwaysLive |-> [bytesByTile |-> [i \in 1..T |-> i]]]],
   vertexTypes |-> [names |-> <<"v0">>],
   computeSets |-> [names |-> <<"cs0", "cs1">>],
   programs |-> <<[type |-> "GlobalExchange", name |-> "p0"]>>]

NoReportJson == ReportJson(1, 1)

\* One tensor of a tensor-map payload: the 8-element tuple [inst, index,
\* shape, dtype, has_constant, has_aliases, num_elements, tiles], placed on
\* the tiles of `tiles' with 4 elements on each.
JsTensor(inst, tiles) ==
  <<inst, 0, <<Len(tiles), 4>>, "float", 0, 1, 4 * Len(tiles),
    [i \in 1..Len(tiles) |-> <<tiles[i], 4>>]>>

\* The JSON of a tensor map of two computations: c0 holds one tensor on tile
\* ta, c1 one tensor on the tiles tb and ta.
TensorMapJson(ta, tb) ==
  [mappings |-> [c \in {"c0", "c1"} |->
     IF c = "c0" THEN <<JsTensor("i0", <<ta>>)>>
                 ELSE <<JsTensor("i1", <<tb, ta>>)>>]]

NoTensorMapJson == [mappings |-> EmptyDict]

InfoJson == [ml_types |-> [i0 |-> 1, i1 |-> 2]]

NoInfoJson == [ml_types |-> EmptyDict]

\* An IpuTraceEvent: its type and the payload fields parse_events reads.
Event(type, cr, tm, ii, dt, er) ==
  [type |-> type, compilation_report |-> cr, tensor_map |-> tm,
   instruction_info |-> ii, data_transfer |-> dt, execution_report |-> er]

NoCR == Txt("empty", NoReportJson)
NoTM == Txt("empty", NoTensorMapJson)
NoII == Txt("empty", NoInfoJson)
NoDT == Txt("empty", NoTransferJson)
NoER == Txt("empty", NoExecJson)

PlainEvent(type) == Event(type, NoCR, NoTM, NoII, NoDT, NoER)

CompileEndEvent(cr, tm, ii) == Event("COMPILE_END", cr, tm, ii, NoDT, NoER)

TransferEvent(type, dt) == Event(type, NoCR, NoTM, NoII, dt, NoER)

ExecuteEvent(er) == Event("EXECUTE", NoCR, NoTM, NoII, NoDT, er)

TransferTexts ==
  {NoDT, Txt("json", TransferJson("a")), Txt("json", TransferJson("b")),
   Txt("bad_utf8", NoTransferJson), Txt("bad_json", NoTransferJson)}

ExecTexts ==
  {NoER, Txt("json", ExecJson("x")), Txt("json", ExecJson("y")),
   Txt("bad_utf8", NoExecJson), Txt("bad_json", NoExecJson)}

BadReportTexts == {NoCR, Txt("bad_utf8", NoReportJson), Txt("bad_json", NoReportJson)}

TensorMapTexts ==
  {Txt("json", TensorMapJson(0, 3)), Txt("bad_utf8", NoTensorMapJson),
   Txt("bad_json", NoTensorMapJson)}

InfoTexts == {Txt("json", InfoJson), Txt("bad_utf8", NoInfoJson)}

\* The COMPILE_END events: without a report, with an undecodable one, with
\* the report of a 2-IPU, 4-tile target and every tensor-map and
\* instruction-info text, and with a second, fully decodable report.
CompileEndEvents ==
  {CompileEndEvent(cr, NoTM, NoII) : cr \in BadReportTexts}
  \cup {CompileEndEvent(Txt("json", ReportJson(2, 4)), tm, ii) :
          tm \in TensorMapTexts, ii \in InfoTexts}
  \cup {CompileEndEvent(Txt("json", ReportJson(1, 2)),
                         Txt("json", TensorMapJson(1, 0)), Txt("json", InfoJson))}

\* The events a trace list is made of.
Events ==
  {PlainEvent("COMPILE_BEGIN"), PlainEvent("LOAD_ENGINE")}
  \cup CompileEndEvents
  \cup {TransferEvent(k, dt) :
          k \in {"HOST_TO_DEVICE_TRANSFER", "DEVICE_TO_HOST_TRANSFER"},
          dt \in TransferTexts}
  \cup {ExecuteEvent(er) : er \in ExecTexts}

(***************************************************************************)
(* Python helpers.                                                         *)
(***************************************************************************)
\* `if text:' on a payload field: a non-empty text is true.
Truthy(text) == text.enc # "empty"

\* `if assert_len:' on the optional expected count: None and 0 are false.
IntTruthy(opt) == opt # None /\ opt[1] # 0

\* d[k] = v on a dict.
DictPut(d, k, v) == [x \in DOMAIN d \cup {k} |-> IF x = k THEN v ELSE d[x]]

\* d.get(k, default) on a dict.
DictGet(d, k, default) == IF k \in DOMAIN d THEN d[k] ELSE default

\* The outcome of a statement or a query: the exception it raised ("none"
\* when it ended normally) with the object (or the value) it left.
Ok(v) == [exc |-> "none", val |-> v]

Raise(exc, v) == [exc |-> exc, val |-> v]

(***************************************************************************)
(* JSON text.  The payloads of most events of the model carry the value    *)
(* they decode to (enc = "json").  A payload with enc = "text" carries the *)
(* JSON document itself, as its sequence of tokens, and js.loads parses    *)
(* it: arrays to lists in document order, objects to dicts, a repeated key *)
(* keeping its last value.                                                 *)
(***************************************************************************)
Tok(t) == [t |-> t, s |-> "", k |-> 0]

StrTok(s) == [t |-> "str", s |-> s, k |-> 0]

NumTok(k) == [t |-> "num", s |-> "", k |-> k]

JsonFail == [ok |-> FALSE, val |-> <<>>, rest |-> <<>>]

JsonDone(val, rest) == [ok |-> TRUE, val |-> val, rest |-> rest]

RECURSIVE json_value(_), json_array(_, _), json_object(_, _)

\* One JSON value at the head of toks.
json_value(toks) ==
  IF Len(toks) = 0 THEN JsonFail
  ELSE CASE Head(toks).t = "str" -> JsonDone(Head(toks).s, Tail(toks))
         [] Head(toks).t = "num" -> JsonDone(Head(toks).k, Tail(toks))
         [] Head(toks).t = "[" ->
              IF Len(toks) > 1 /\ toks[2].t = "]"
                THEN JsonDone(<<>>, Tail(Tail(toks)))
                ELSE json_array(Tail(toks), <<>>)
         [] Head(toks).t = "{" ->
              IF Len(toks) > 1 /\ toks[2].t = "}"
                THEN JsonDone(EmptyDict, Tail(Tail(toks)))
                ELSE json_object(Tail(toks), EmptyDict)
         [] OTHER -> JsonFail

\* The elements of an array after `[' or `,', up to the closing `]'.
json_array(toks, acc) ==
  LET v == json_value(toks)
  IN IF ~v.ok \/ Len(v.rest) = 0 THEN JsonFail
     ELSE IF Head(v.rest).t = ","
            THEN json_array(Tail(v.rest), Append(acc, v.val))
     ELSE IF Head(v.rest).t = "]"
            THEN JsonDone(Append(acc, v.val), Tail(v.rest))
     ELSE JsonFail

\* The members of an object after `{' or `,', up to the closing `}'.
json_object(toks, acc) ==
  IF Len(toks) < 2 \/ toks[1].t # "str" \/ toks[2].t # ":" THEN JsonFail
  ELSE LET v == json_value(Tail(Tail(toks)))
       IN IF ~v.ok \/ Len(v.rest) = 0 THEN JsonFail
          ELSE IF Head(v.rest).t = ","
                 THEN json_object(Tail(v.rest), DictPut(acc, toks[1].s, v.val))
          ELSE IF Head(v.rest).t = "}"
                 THEN JsonDone(DictPut(acc, toks[1].s, v.val), Tail(v.rest))
          ELSE JsonFail

\* The parse of a whole document: nothing may follow the value.
json_parse(toks) ==
  LET v == json_value(toks)
  IN IF v.ok /\ Len(v.rest) = 0 THEN Ok(v.val) ELSE Raise("ValueError", <<>>)

\* js.loads(text, encoding="utf-8"): the decoded value, UnicodeDecodeError for
\* bytes that are no UTF-8, ValueError for text that is no JSON (the empty
\* text included).
js_loads(text) ==
  IF text.enc = "text" THEN json_parse(text.val)
  ELSE [exc |-> CASE text.enc = "json" -> "none"
                  [] text.enc = "bad_utf8" -> "UnicodeDecodeError"
                  [] OTHER -> "ValueError",
        val |-> text.val]

(***************************************************************************)
(* TensorMap.                                                              *)
(***************************************************************************)
\* Tile built with its two arguments exchanged.
TensorMap_Tile_swapped(tile) == [tile |-> tile[2], num_elements |-> tile[1]]

TensorMap_Tile(tile) == [tile |-> tile[1], num_elements |-> tile[2]]

TensorMap_Tensor(js_tensor) ==
  [inst |-> js_tensor[1], index |-> js_tensor[2], shape |-> js_tensor[3],
   dtype |-> js_tensor[4], has_constant |-> js_tensor[5] # 0,
   has_aliases |-> js_tensor[6] # 0, num_elements |-> js_tensor[7],
   tiles |-> [i \in 1..Len(js_tensor[8]) |-> TensorMap_Tile(js_tensor[8][i])]]

\* TensorMap.__init__(tensor_map, num_tiles_per_ipu).
TensorMap_init(js_map, num_tiles_per_ipu) ==
  [num_tiles_per_ipu |-> num_tiles_per_ipu,
   mappings |-> [comp \in DOMAIN js_map.mappings |->
      [i \in 1..Len(js_map.mappings[comp]) |->
         TensorMap_Tensor(js_map.mappings[comp][i])]]]

\* TensorMap.Tensor.tile_ids(): the tiles of one tensor, as a set.
Tensor_tile_ids(tensor) == {tensor.tiles[i].tile : i \in 1..Len(tensor.tiles)}

\* The computation argument of tile_ids / ipu_ids: None, one name or a list
\* of names.
NoneArg == [kind |-> "none", names |-> <<>>]

StrArg(name) == [kind |-> "str", names |-> <<name>>]

ListArg(names) == [kind |-> "list", names |-> names]

\* tile_ids that reads every computation, whatever the argument.
tile_ids_all(tm, computation) ==
  Ok(UNION {UNION {Tensor_tile_ids(tm.mappings[c][i]) :
                     i \in 1..Len(tm.mappings[c])} :
              c \in DOMAIN tm.mappings})

\* TensorMap.tile_ids(computation).
tile_ids(tm, computation) ==
  LET computations ==
        IF computation.kind = "list"
          THEN {computation.names[i] : i \in 1..Len(computation.names)}
          ELSE IF computation.kind = "str" /\ computation.names[1] # ""
                 THEN {computation.names[1]}
                 ELSE DOMAIN tm.mappings
  IN IF computations \subseteq DOMAIN tm.mappings
       THEN Ok(UNION {UNION {Tensor_tile_ids(tm.mappings[c][i]) :
                               i \in 1..Len(tm.mappings[c])} :
                        c \in computations})
       ELSE Raise("KeyError", {})

(***************************************************************************)
(* Double-precision arithmetic of get_num_tiles_per_ipu and ipu_ids.       *)
(* numTiles / numIPUs is a true division (from __future__ import           *)
(* division): its value is the double nearest to the quotient, kept here   *)
(* as the pair [num, den] it was computed from.  int(tile_id / q) divides  *)
(* again in double precision and truncates.  Both roundings are worked out *)
(* on integers: the 53-bit significand of num/den by long division, then   *)
(* the side of the last rounding.                                          *)
(***************************************************************************)
MantissaBits == 52

RECURSIVE Pow2(_)
Pow2(k) == IF k <= 0 THEN 1 ELSE 2 * Pow2(k - 1)

\* floor(log2(k)) for k >= 1.
RECURSIVE FloorLog2(_)
FloorLog2(k) == IF k < 2 THEN 0 ELSE 1 + FloorLog2(k \div 2)

\* The least m >= 0 with num * 2^m >= den.
RECURSIVE ShiftUp(_, _)
ShiftUp(num, den) == IF num >= den THEN 0 ELSE 1 + ShiftUp(2 * num, den)

\* The binary exponent of num/den: the a with 2^a <= num/den < 2^(a+1).
RatioExp(num, den) ==
  IF num >= den THEN FloorLog2(num \div den) ELSE 0 - ShiftUp(num, den)

\* k more steps of the long division by den: <<remainder, last quotient bit>>.
RECURSIVE LongDiv(_, _, _, _)
LongDiv(r, bit, k, den) ==
  IF k = 0 THEN <<r, bit>>
  ELSE LongDiv((2 * r) % den, (2 * r) \div den, k - 1, den)

\* The rounding of num/den to a double: "exact", "down" or "up", with the
\* remainder left after the 53 significant bits.
RoundDiv(num, den) ==
  LET a == RatioExp(num, den)
      d == LongDiv(num % den, (num \div den) % 2, MantissaBits - a, den)
      r == d[1]
  IN [dir |-> IF r = 0 THEN "exact"
              ELSE IF 2 * r > den \/ (2 * r = den /\ d[2] = 1) THEN "up"
              ELSE "down",
      rem |-> r, exp |-> a]

\* int(tile_id / q) for the double q nearest to q.num / q.den (tile_id >= 0).
\* The exact quotient tile_id * den / num is at least 1/num away from an
\* integer unless it is one, so only an integral quotient k can end on the
\* other side of the truncation: when q was rounded up, tile_id / q lies
\* below k, and the division rounds it back to k unless it is nearer to the
\* double before k.
int_div(tile_id, q) ==
  LET x == tile_id * q.den
      k == x \div q.num
      rd == RoundDiv(q.num, q.den)
      e == FloorLog2(k)
      lexp == e
      rexp == rd.exp + 1 + (IF k = Pow2(e) THEN 1 ELSE 0)
      m == IF lexp < rexp THEN lexp ELSE rexp
  IN IF x % q.num # 0 \/ k = 0 \/ rd.dir # "up" THEN k
     ELSE IF q.num * Pow2(lexp - m) >= k * (q.den - rd.rem) * Pow2(rexp - m)
            THEN k
            ELSE k - 1

\* TensorMap.ipu_ids(computation).
ipu_ids(tm, computation) ==
  LET ids == tile_ids(tm, computation)
  IN IF ids.exc # "none" THEN ids
     ELSE IF ids.val # {} /\ tm.num_tiles_per_ipu.num = 0
            THEN Raise("ZeroDivisionError", {})
     ELSE Ok({int_div(tile_id, tm.num_tiles_per_ipu) : tile_id \in ids.val})

\* TensorMap.computation_names().
computation_names(tm) == DOMAIN tm.mappings

(***************************************************************************)
(* The derived queries of ReportJSON.  self is the object: has_attrs,      *)
(* events, tensor_map, instruction_info.  A query answers Ok(value) or the *)
(* exception it raises.                                                    *)
(***************************************************************************)
RECURSIVE SeqSum(_)
SeqSum(s) == IF s = <<>> THEN 0 ELSE Head(s) + SeqSum(Tail(s))

RECURSIVE SeqMax(_)
SeqMax(s) ==
  IF Len(s) = 1 THEN s[1]
  ELSE LET m == SeqMax(Tail(s)) IN IF Head(s) > m THEN Head(s) ELSE m

\* self.events[kind]: AttributeError before the first parse_events, KeyError
\* when no payload of the kind is stored.
events_item(self, kind) ==
  IF ~self.has_attrs THEN Raise("AttributeError", <<>>)
  ELSE IF kind \notin DOMAIN self.events THEN Raise("KeyError", <<>>)
  ELSE Ok(self.events[kind])

get_each_tile_memory(self) ==
  LET r == events_item(self, "COMPILE_END")
  IN IF r.exc # "none" THEN r ELSE Ok(r.val.memory.byTile.total)

get_max_tile_memory(self) ==
  LET m == get_each_tile_memory(self)
  IN IF m.exc # "none" THEN m
     ELSE IF m.val = <<>> THEN Raise("ValueError", <<>>)
     ELSE Ok(SeqMax(m.val))

get_always_live_memory(self) ==
  LET r == events_item(self, "COMPILE_END")
  IN IF r.exc # "none" THEN r
     ELSE Ok(SeqSum(r.val.memory.liveness.alwaysLive.bytesByTile))

\* get_total_tile_memory with max in place of sum.
get_total_tile_memory_max(self) ==
  LET m == get_each_tile_memory(self)
  IN IF m.exc # "none" THEN m
     ELSE IF m.val = <<>> THEN Raise("ValueError", <<>>)
     ELSE Ok(SeqMax(m.val))

get_total_tile_memory(self) ==
  LET m == get_each_tile_memory(self)
  IN IF m.exc # "none" THEN m ELSE Ok(SeqSum(m.val))

get_vertices(self) ==
  LET r == events_item(self, "COMPILE_END")
  IN IF r.exc # "none" THEN r ELSE Ok(r.val.vertexTypes.names)

\* get_compute_sets written with dict.get defaults, as assert_no_compute_set is.
get_compute_sets_default(self) ==
  IF ~self.has_attrs THEN Raise("AttributeError", <<>>)
  ELSE IF "COMPILE_END" \notin DOMAIN self.events THEN Ok(<<>>)
  ELSE Ok(self.events["COMPILE_END"].computeSets.names)

\* get_compute_sets that reads the names of the vertex types.
get_compute_sets_vertices(self) ==
  LET r == events_item(self, "COMPILE_END")
  IN IF r.exc # "none" THEN r ELSE Ok(r.val.vertexTypes.names)

get_compute_sets(self) ==
  LET r == events_item(self, "COMPILE_END")
  IN IF r.exc # "none" THEN r ELSE Ok(r.val.computeSets.names)

get_execution_reports(self) == events_item(self, "EXECUTE")

get_instruction_info(self) ==
  IF ~self.has_attrs THEN Raise("AttributeError", <<>>)
  ELSE Ok(self.instruction_info)

\* assert_no_compute_set: assertFalse of the names, {} when any level is
\* missing.
assert_no_compute_set(self) ==
  IF ~self.has_attrs THEN Raise("AttributeError", <<>>)
  ELSE IF "COMPILE_END" \in DOMAIN self.events
          /\ self.events["COMPILE_END"].computeSets.names # <<>>
         THEN Raise("AssertionError", <<>>)
         ELSE Ok(<<>>)

get_tensor_map(self) ==
  IF ~self.has_attrs THEN Raise("AttributeError", <<>>)
  ELSE Ok(self.tensor_map)

get_num_ipus(self) ==
  LET r == events_item(self, "COMPILE_END")
  IN IF r.exc # "none" THEN r ELSE Ok(r.val.target.numIPUs)

get_num_tiles(self) ==
  LET r == events_item(self, "COMPILE_END")
  IN IF r.exc # "none" THEN r ELSE Ok(r.val.target.numTiles)

\* get_num_tiles() // get_num_ipus(): the quotient of a floor division.
get_num_tiles_per_ipu_floor(self) ==
  LET t == get_num_tiles(self)
      i == get_num_ipus(self)
  IN IF t.exc # "none" THEN t
     ELSE IF i.exc # "none" THEN i
     ELSE IF i.val = 0 THEN Raise("ZeroDivisionError", <<>>)
     ELSE Ok([num |-> t.val \div i.val, den |-> 1])

\* get_num_tiles() / get_num_ipus(): the double nearest to the quotient.
get_num_tiles_per_ipu(self) ==
  LET t == get_num_tiles(self)
      i == get_num_ipus(self)
  IN IF t.exc # "none" THEN t
     ELSE IF i.exc # "none" THEN i
     ELSE IF i.val = 0 THEN Raise("ZeroDivisionError", <<>>)
     ELSE Ok([num |-> t.val, den |-> i.val])

get_program_names_of_type(self, program_type) ==
  LET r == events_item(self, "COMPILE_END")
      IsType(p) == p.type = program_type
      ps == SelectSeq(r.val.programs, IsType)
  IN IF r.exc # "none" THEN r ELSE Ok([j \in 1..Len(ps) |-> ps[j].name])

get_first_program_of_type(self, program_type) ==
  LET r == events_item(self, "COMPILE_END")
      IsType(p) == p.type = program_type
      ps == SelectSeq(r.val.programs, IsType)
  IN IF r.exc # "none" THEN r
     ELSE IF ps = <<>> THEN Ok(<<>>) ELSE Ok(<<ps[1]>>)

get_program(self, index) ==
  LET r == events_item(self, "COMPILE_END")
  IN IF r.exc # "none" THEN r
     ELSE IF index + 1 \notin DOMAIN r.val.programs THEN Raise("IndexError", <<>>)
     ELSE Ok(r.val.programs[index + 1])

(***************************************************************************)
(* parse_events: the reset of the decoded attributes and the body of the   *)
(* loop.                                                                   *)
(***************************************************************************)
\* reset without `self.events = {}': the payloads of the last call are kept.
reset_keep_events(self) ==
  [has_attrs |-> TRUE, events |-> self.events, tensor_map |-> None,
   instruction_info |-> EmptyDict]

\* self.events = {}; self.tensor_map = None; self.instruction_info = {}.
reset(self) ==
  [has_attrs |-> TRUE, events |-> EmptyDict, tensor_map |-> None,
   instruction_info |-> EmptyDict]

\* events_types[evt.type] = 1 in place of += 1.
count_event_set_one(hist, kind) == DictPut(hist, kind, 1)

\* events_types[evt.type] += 1 on the defaultdict(int).
count_event(hist, kind) == DictPut(hist, kind, DictGet(hist, kind, 0) + 1)

\* The COMPILE_END branch.
compile_end(self, evt) ==
  IF ~Truthy(evt.compilation_report) THEN Ok(self)
  ELSE IF "COMPILE_END" \in DOMAIN self.events THEN Raise("AssertionError", self)
  ELSE
    LET cr == js_loads(evt.compilation_report)
        s1 == [self EXCEPT !.events = DictPut(self.events, "COMPILE_END", cr.val)]
        tm == js_loads(evt.tensor_map)
        q == get_num_tiles_per_ipu(s1)
        s2 == [s1 EXCEPT !.tensor_map = <<TensorMap_init(tm.val, q.val)>>]
        ii == js_loads(evt.instruction_info)
    IN IF cr.exc # "none" THEN Raise(cr.exc, self)
       ELSE IF tm.exc # "none" THEN Raise(tm.exc, s1)
       ELSE IF q.exc # "none" THEN Raise(q.exc, s1)
       ELSE IF ii.exc # "none" THEN Raise(ii.exc, s2)
       ELSE Ok([s2 EXCEPT !.instruction_info = ii.val])

\* The transfer branches without their assert: a later payload overwrites.
data_transfer_overwrite(self, evt) ==
  IF ~Truthy(evt.data_transfer) THEN Ok(self)
  ELSE
    LET dt == js_loads(evt.data_transfer)
    IN IF dt.exc # "none" THEN Raise(dt.exc, self)
       ELSE Ok([self EXCEPT !.events = DictPut(self.events, evt.type, dt.val)])

\* The transfer branches with one assert for both directions.
data_transfer_shared(self, evt) ==
  IF ~Truthy(evt.data_transfer) THEN Ok(self)
  ELSE IF {"HOST_TO_DEVICE_TRANSFER", "DEVICE_TO_HOST_TRANSFER"}
            \cap DOMAIN self.events # {}
         THEN Raise("AssertionError", self)
  ELSE
    LET dt == js_loads(evt.data_transfer)
    IN IF dt.exc # "none" THEN Raise(dt.exc, self)
       ELSE Ok([self EXCEPT !.events = DictPut(self.events, evt.type, dt.val)])

\* The transfer branches marking the kind as stored before the text is
\* decoded, so that an undecodable payload counts for the assert.
data_transfer_mark_first(self, evt) ==
  IF ~Truthy(evt.data_transfer) THEN Ok(self)
  ELSE IF evt.type \in DOMAIN self.events THEN Raise("AssertionError", self)
  ELSE
    LET dt == js_loads(evt.data_transfer)
        marked == [self EXCEPT !.events = DictPut(self.events, evt.type, dt.val)]
    IN IF dt.exc # "none" THEN Raise(dt.exc, marked) ELSE Ok(marked)

\* The HOST_TO_DEVICE_TRANSFER and DEVICE_TO_HOST_TRANSFER branches.
data_transfer(self, evt) ==
  IF ~Truthy(evt.data_transfer) THEN Ok(self)
  ELSE IF evt.type \in DOMAIN self.events THEN Raise("AssertionError", self)
  ELSE
    LET dt == js_loads(evt.data_transfer)
    IN IF dt.exc # "none" THEN Raise(dt.exc, self)
       ELSE Ok([self EXCEPT !.events = DictPut(self.events, evt.type, dt.val)])

\* The EXECUTE branch storing the last report in place of appending it.
execute_overwrite(self, evt) ==
  IF ~Truthy(evt.execution_report) THEN Ok(self)
  ELSE
    LET er == js_loads(evt.execution_report)
    IN IF er.exc # "none" THEN Raise(er.exc, self)
       ELSE Ok([self EXCEPT !.events = DictPut(self.events, "EXECUTE", <<er.val>>)])

\* The EXECUTE branch.
execute(self, evt) ==
  IF ~Truthy(evt.execution_report) THEN Ok(self)
  ELSE
    LET er == js_loads(evt.execution_report)
    IN IF er.exc # "none" THEN Raise(er.exc, self)
       ELSE Ok([self EXCEPT !.events =
                  DictPut(self.events, "EXECUTE",
                          Append(DictGet(self.events, "EXECUTE", <<>>), er.val))])

\* The body of the try statement.
handle_event(self, evt) ==
  CASE evt.type = "COMPILE_END" -> compile_end(self, evt)
    [] evt.type \in {"HOST_TO_DEVICE_TRANSFER", "DEVICE_TO_HOST_TRANSFER"} ->
         data_transfer(self, evt)
    [] evt.type = "EXECUTE" -> execute(self, evt)
    [] OTHER -> Ok(self)

\* The loop body without its except clause.
try_event_no_except(self, evt) == handle_event(self, evt)

\* try: ... except UnicodeDecodeError: pass.
try_event(self, evt) ==
  LET r == handle_event(self, evt)
  IN IF r.exc = "UnicodeDecodeError" THEN Ok(r.val) ELSE r

\* The loop of parse_events over a whole list: the object it leaves, the
\* histogram, and the exception that ended it ("none": it returned).
RECURSIVE parse_loop(_, _, _)
parse_loop(self, hist, evs) ==
  IF evs = <<>> THEN [exc |-> "none", val |-> self, hist |-> hist]
  ELSE LET r == try_event(self, Head(evs))
           h == count_event(hist, Head(evs).type)
       IN IF r.exc # "none" THEN [exc |-> r.exc, val |-> r.val, hist |-> h]
          ELSE parse_loop(r.val, h, Tail(evs))

(***************************************************************************)
(* The object and the steps of a parse_events call.                        *)
(***************************************************************************)
\* No operation on the infeed queue yet, and no call made.
NoCall == [op |-> "none", ans |-> [exc |-> "none", val |-> <<>>]]

NoArgs ==
  [output_shapes |-> <<>>, feed_name |-> "", device_ordinal |-> 0,
   replication_factor |-> 1, data_to_prefetch |-> 1]

NoCalls == [args |-> NoArgs, initializer |-> 0, dequeue |-> 0, get_next |-> 0]

Self ==
  [has_attrs |-> has_attrs, events |-> events, tensor_map |-> tensor_map,
   instruction_info |-> instruction_info]

\* The state after ReportJSON.__init__ without a session.
Init ==
  /\ has_attrs = FALSE
  /\ events = EmptyDict
  /\ tensor_map = None
  /\ instruction_info = EmptyDict
  /\ pc = "idle"
  /\ n = 0
  /\ assert_len = None
  /\ assert_msg = ""
  /\ events_types = EmptyDict
  /\ input = <<>>
  /\ result = "none"
  /\ ret = EmptyDict
  /\ err_msg = ""
  /\ redecode = FALSE
  /\ qres = <<>>
  /\ queue = <<>>
  /\ graph = <<>>
  /\ last = NoCall
  /\ calls = NoCalls
  /\ opts = <<>>
  /\ sess_runs = <<>>
  /\ cfg_call = <<>>
  /\ attr_scopes = <<>>
  /\ created = <<>>
  /\ mgraph = <<>>
  /\ dep_ops = <<>>
  /\ visited = {}
  /\ init_ops = <<>>
  /\ mv_pc = "idle"

AssertLens == {None} \cup {<<k>> : k \in 0..MaxLen}

AssertMsgs == {"", "msg"}

\* parse_events(events, assert_len, assert_msg) is called with a list of
\* len events.
ParseCall ==
  /\ pc = "idle"
  /\ \E len \in 0..MaxLen, al \in AssertLens, msg \in AssertMsgs :
       /\ n' = len
       /\ assert_len' = al
       /\ assert_msg' = msg
  /\ pc' = "check"
  /\ events_types' = EmptyDict
  /\ input' = <<>>
  /\ result' = "running"
  /\ ret' = EmptyDict
  /\ err_msg' = ""
  /\ redecode' = FALSE
  /\ UNCHANGED <<has_attrs, events, tensor_map, instruction_info, qres>>
  /\ UNCHANGED <<queue_vars, tool_vars>>

\* Whether the expected-count check fails.
len_check_fails(al, len) == IntTruthy(al) /\ al[1] # len

\* The check made after the reset of the decoded attributes.
CheckLen_reset_first ==
  /\ pc = "check"
  /\ assert_len' = None
  /\ assert_msg' = ""
  /\ has_attrs' = reset(Self).has_attrs
  /\ events' = reset(Self).events
  /\ tensor_map' = reset(Self).tensor_map
  /\ instruction_info' = reset(Self).instruction_info
  /\ IF len_check_fails(assert_len, n)
       THEN /\ pc' = "idle"
            /\ result' = "CountMismatch"
            /\ err_msg' = assert_msg
            /\ UNCHANGED redecode
       ELSE /\ pc' = "loop"
            /\ redecode' = (has_attrs /\ (events # EmptyDict \/ tensor_map # None))
            /\ UNCHANGED <<result, err_msg>>
  /\ UNCHANGED <<n, events_types, input, ret, qres>>
  /\ UNCHANGED <<queue_vars, tool_vars>>

\* if assert_len: self.test.assertEqual(assert_len, len(events), assert_msg),
\* then the reset of the decoded attributes.
CheckLen ==
  /\ pc = "check"
  /\ assert_len' = None
  /\ assert_msg' = ""
  /\ IF len_check_fails(assert_len, n)
       THEN /\ pc' = "idle"
            /\ result' = "CountMismatch"
            /\ err_msg' = assert_msg
            /\ UNCHANGED <<has_attrs, events, tensor_map, instruction_info,
                           redecode>>
       ELSE /\ pc' = "loop"
            /\ redecode' = (has_attrs /\ (events # EmptyDict \/ tensor_map # None))
            /\ has_attrs' = reset(Self).has_attrs
            /\ events' = reset(Self).events
            /\ tensor_map' = reset(Self).tensor_map
            /\ instruction_info' = reset(Self).instruction_info
            /\ UNCHANGED <<result, err_msg>>
  /\ UNCHANGED <<n, events_types, input, ret, qres>>
  /\ UNCHANGED <<queue_vars, tool_vars>>

\* One iteration of `for e in events'.
LoopStep ==
  /\ pc = "loop"
  /\ Len(input) < n
  /\ \E evt \in Events :
       LET r == try_event(Self, evt)
       IN /\ input' = Append(input, evt)
          /\ events_types' = count_event(events_types, evt.type)
          /\ has_attrs' = r.val.has_attrs
          /\ events' = r.val.events
          /\ tensor_map' = r.val.tensor_map
          /\ instruction_info' = r.val.instruction_info
          /\ IF r.exc = "none"
               THEN UNCHANGED <<pc, result>>
               ELSE pc' = "idle" /\ result' = r.exc
  /\ UNCHANGED <<n, assert_len, assert_msg, ret, err_msg, redecode, qres>>
  /\ UNCHANGED <<queue_vars, tool_vars>>

\* return events_types.
Return ==
  /\ pc = "loop"
  /\ Len(input) = n
  /\ pc' = "idle"
  /\ result' = "returned"
  /\ ret' = events_types
  /\ UNCHANGED <<has_attrs, events, tensor_map, instruction_info, n, assert_len,
                 assert_msg, events_types, input, err_msg, redecode, qres>>
  /\ UNCHANGED <<queue_vars, tool_vars>>

Next == ParseCall \/ CheckLen \/ LoopStep \/ Return

Spec == Init /\ [][Next]_vars

(***************************************************************************)
(* The tensor-map queries on the report of one compilation: a new object   *)
(* decodes a list of one COMPILE_END event whose target and tile placement *)
(* are drawn from the bounds (DecodeOne: the whole parse_events call), and *)
(* the queries are then made on it.                                        *)
(***************************************************************************)
QueryEvents ==
  {CompileEndEvent(Txt("json", ReportJson(I, T)),
                   Txt("json", TensorMapJson(ta, tb)), Txt("json", InfoJson)) :
     I \in 1..MaxIPUs, T \in 1..MaxTiles, ta \in 0..MaxTiles, tb \in 0..1}

QueryArgs == {NoneArg, StrArg("c0"), StrArg("c1"), ListArg(<<"c0", "c1">>)}

\* parse_events([evt]) on a new object.
DecodeOne ==
  /\ pc = "idle"
  /\ ~has_attrs
  /\ \E evt \in QueryEvents :
       \E r \in {parse_loop(reset(Self), EmptyDict, <<evt>>)} :
          /\ input' = <<evt>>
          /\ n' = 1
          /\ has_attrs' = r.val.has_attrs
          /\ events' = r.val.events
          /\ tensor_map' = r.val.tensor_map
          /\ instruction_info' = r.val.instruction_info
          /\ events_types' = r.hist
          /\ result' = IF r.exc = "none" THEN "returned" ELSE r.exc
          /\ ret' = IF r.exc = "none" THEN r.hist ELSE EmptyDict
  /\ UNCHANGED <<pc, assert_len, assert_msg, err_msg, redecode, qres>>
  /\ UNCHANGED <<queue_vars, tool_vars>>

\* get_tensor_map().ipu_ids(computation).
QueryIpuIds ==
  /\ pc = "idle"
  /\ result = "returned"
  /\ tensor_map # None
  /\ \E c \in QueryArgs :
       qres' = <<[query |-> "ipu_ids", arg |-> c, ans |-> ipu_ids(tensor_map[1], c)]>>
  /\ UNCHANGED <<has_attrs, events, tensor_map, instruction_info, pc, n,
                 assert_len, assert_msg, events_types, input, result, ret,
                 err_msg, redecode>>
  /\ UNCHANGED <<queue_vars, tool_vars>>

NextQuery == DecodeOne \/ QueryIpuIds

SpecQuery == Init /\ [][NextQuery]_vars

(***************************************************************************)
(* What the properties below say about the list read so far.               *)
(***************************************************************************)
TransferKinds == {"HOST_TO_DEVICE_TRANSFER", "DEVICE_TO_HOST_TRANSFER"}

\* The payload text parse_events tests for an event of its kind.
Payload(evt) ==
  CASE evt.type = "COMPILE_END" -> evt.compilation_report
    [] evt.type \in TransferKinds -> evt.data_transfer
    [] evt.type = "EXECUTE" -> evt.execution_report
    [] OTHER -> Txt("empty", <<>>)

HasPayload(evt) == Payload(evt).enc # "empty"

\* The encodings of the texts an event hands to js.loads, in order.
Loaded(evt) ==
  IF ~HasPayload(evt) THEN <<>>
  ELSE IF evt.type = "COMPILE_END"
         THEN <<evt.compilation_report.enc, evt.tensor_map.enc,
                evt.instruction_info.enc>>
         ELSE <<Payload(evt).enc>>

Decodable(evt) == \A i \in DOMAIN Loaded(evt) : Loaded(evt)[i] = "json"

PrefixDecodable(j) == \A i \in 1..j : Decodable(input[i])

\* The encoding of the first text of an event that js.loads cannot decode.
FirstBad(evt) ==
  LET l == Loaded(evt)
      bad == {i \in DOMAIN l : l[i] # "json"}
  IN IF bad = {} THEN "none"
     ELSE l[CHOOSE i \in bad : \A k \in bad : i <= k]

\* An earlier event of the list has the kind of event j and carries data.
EarlierPayload(j) ==
  \E i \in 1..(j - 1) : input[i].type = input[j].type /\ HasPayload(input[i])

\* The payload of an earlier event of the kind of event j was stored.
StoredBefore(j) ==
  \E i \in 1..(j - 1) :
    /\ input[i].type = input[j].type
    /\ Payload(input[i]).enc = "json"

Duplicate(j) ==
  input[j].type \in SingletonKinds /\ HasPayload(input[j]) /\ StoredBefore(j)

\* The call ended with an exception raised while event j was handled.
RaisedAt(j) == pc = "idle" /\ Len(input) = j /\ result # "returned"

\* The first event of a kind that carries data.
FirstWithPayload(kind) ==
  LET js == {j \in 1..Len(input) : input[j].type = kind /\ HasPayload(input[j])}
  IN input[CHOOSE j \in js : \A k \in js : j <= k]

(***************************************************************************)
(* C1: with decodable payloads, every non-empty payload of a singleton     *)
(* kind (COMPILE_END, HOST_TO_DEVICE_TRANSFER, DEVICE_TO_HOST_TRANSFER)    *)
(* that follows an earlier non-empty payload of its kind in the same call  *)
(* ends the call with an AssertionError, and the payload stored for the    *)
(* kind is still the first one: at most one is stored per call.            *)
(***************************************************************************)
C1_DuplicatePayloadAborts ==
  \A j \in 1..Len(input) :
    ( /\ PrefixDecodable(j)
      /\ input[j].type \in SingletonKinds
      /\ HasPayload(input[j])
      /\ EarlierPayload(j) )
    => /\ RaisedAt(j)
       /\ result = "AssertionError"
       /\ input[j].type \in DOMAIN events
       /\ events[input[j].type] = Payload(FirstWithPayload(input[j].type)).val

C1_Witness ==
  /\ pc = "idle"
  /\ result = "AssertionError"
  /\ Len(input) >= 2
  /\ PrefixDecodable(Len(input))
  /\ EarlierPayload(Len(input))

(***************************************************************************)
(* C2, as claimed: an event whose payload is not valid UTF-8 or not valid  *)
(* JSON is skipped without an exception leaving parse_events.              *)
(***************************************************************************)
C2_UndecodableSkipped ==
  \A j \in 1..Len(input) :
    FirstBad(input[j]) \in {"bad_utf8", "bad_json"} => ~RaisedAt(j)

(***************************************************************************)
(* C2, amended: a payload that is not valid UTF-8 is skipped (the rest of  *)
(* its event is not decoded, no exception leaves parse_events, the later   *)
(* events are read); a payload that is valid UTF-8 but no JSON makes       *)
(* js.loads raise ValueError, which leaves parse_events at that event.     *)
(* Both for an event that is no duplicate of a stored singleton payload,   *)
(* whose assert runs before the text is decoded.                           *)
(***************************************************************************)
C2_OnlyBadUtf8Skipped ==
  /\ \A j \in 1..Len(input) :
       ~Duplicate(j) =>
         /\ FirstBad(input[j]) = "bad_utf8" => ~RaisedAt(j)
         /\ FirstBad(input[j]) \in {"bad_json", "empty"} =>
              RaisedAt(j) /\ result = "ValueError"
  /\ (pc = "idle" /\ result = "returned") => Len(input) = n

C2_Witness ==
  /\ pc = "idle"
  /\ result = "returned"
  /\ \E j \in 1..(Len(input) - 1) :
       /\ FirstBad(input[j]) = "bad_utf8"
       /\ input[j + 1].type = "EXECUTE"
       /\ Payload(input[j + 1]).enc = "json"
       /\ "EXECUTE" \in DOMAIN events

(***************************************************************************)
(* C3: whenever an expected count is supplied and differs from the length  *)
(* of the list, the call fails with a count mismatch that carries the      *)
(* caller's message; without an expected count the length is not checked.  *)
(***************************************************************************)
C3_ExpectedCountChecked ==
  [][pc = "check" =>
       /\ (assert_len # None /\ assert_len[1] # n) =>
            (pc' = "idle" /\ result' = "CountMismatch" /\ err_msg' = assert_msg)
       /\ assert_len = None => pc' = "loop"]_vars

(***************************************************************************)
(* C4: the returned histogram counts every event of the list once under    *)
(* its kind, whatever its payload: the entry of a kind is the number of    *)
(* events of the kind, the counts sum to the length of the list, and a     *)
(* kind that does not occur has no entry.                                  *)
(***************************************************************************)
Occurrences(kind) == Cardinality({j \in 1..Len(input) : input[j].type = kind})

RECURSIVE SumOver(_, _)
SumOver(hist, kinds) ==
  IF kinds = {} THEN 0
  ELSE LET k == CHOOSE x \in kinds : TRUE
       IN hist[k] + SumOver(hist, kinds \ {k})

C4_HistogramCountsEveryEvent ==
  (pc = "idle" /\ result = "returned") =>
    /\ DOMAIN ret = {k \in Kinds : Occurrences(k) > 0}
    /\ \A k \in DOMAIN ret : ret[k] = Occurrences(k)
    /\ SumOver(ret, DOMAIN ret) = Len(input)
    /\ Len(input) = n

C4_Witness ==
  /\ pc = "idle"
  /\ result = "returned"
  /\ \E k \in DOMAIN ret : ret[k] >= 2
  /\ \E j \in 1..Len(input) : ~HasPayload(input[j])
  /\ \E j \in 1..Len(input) : FirstBad(input[j]) = "bad_utf8"

(***************************************************************************)
(* C5: the decoded attributes depend only on the list of the latest call   *)
(* that passed its expected-count check: whatever an earlier call left,    *)
(* events, tensor map and instruction info are those a new object gets     *)
(* from the same list, so decoding a list twice gives the same answers.    *)
(***************************************************************************)
NewObject ==
  [has_attrs |-> FALSE, events |-> EmptyDict, tensor_map |-> None,
   instruction_info |-> EmptyDict]

C5_StateDependsOnLatestList ==
  (pc = "loop" \/ (pc = "idle" /\ result \notin {"none", "CountMismatch"})) =>
    Self = parse_loop(reset(NewObject), EmptyDict, input).val

C5_Witness ==
  /\ redecode
  /\ pc = "idle"
  /\ result = "returned"
  /\ Len(input) >= 2
  /\ DOMAIN events # {}

(***************************************************************************)
(* C6, as claimed: after an empty list is decoded the histogram is empty   *)
(* and every derived query fails with an error.                            *)
(***************************************************************************)
AfterEmptyList == pc = "idle" /\ result = "returned" /\ n = 0

\* The outcomes of the queries that read the compilation report.
ReportQueryOutcomes ==
  {get_each_tile_memory(Self).exc, get_total_tile_memory(Self).exc,
   get_max_tile_memory(Self).exc, get_always_live_memory(Self).exc,
   get_num_ipus(Self).exc, get_num_tiles(Self).exc,
   get_num_tiles_per_ipu(Self).exc, get_compute_sets(Self).exc,
   get_vertices(Self).exc, get_program(Self, 0).exc,
   get_first_program_of_type(Self, "GlobalExchange").exc,
   get_program_names_of_type(Self, "GlobalExchange").exc}

C6_EveryQueryFails ==
  AfterEmptyList =>
    /\ ret = EmptyDict
    /\ "none" \notin ReportQueryOutcomes
    /\ get_tensor_map(Self).exc # "none"
    /\ get_instruction_info(Self).exc # "none"
    /\ assert_no_compute_set(Self).exc # "none"

(***************************************************************************)
(* C6, amended: after an empty list is decoded the histogram is empty and  *)
(* the queries that read the compilation report, with                      *)
(* get_execution_reports, fail with KeyError; get_tensor_map returns None, *)
(* get_instruction_info returns the empty mapping and                      *)
(* assert_no_compute_set passes.                                           *)
(***************************************************************************)
C6_ReportQueriesFail ==
  AfterEmptyList =>
    /\ ret = EmptyDict
    /\ ReportQueryOutcomes = {"KeyError"}
    /\ get_execution_reports(Self).exc = "KeyError"
    /\ get_tensor_map(Self) = Ok(None)
    /\ get_instruction_info(Self) = Ok(EmptyDict)
    /\ assert_no_compute_set(Self).exc = "none"

C6_Witness == AfterEmptyList /\ redecode

(***************************************************************************)
(* C7: after a call on decodable payloads returns, the stored execution    *)
(* reports are the reports of the EXECUTE events that carry one, one entry *)
(* each, in the order of the list; EXECUTE events without a report add     *)
(* nothing, and no number of EXECUTE events is refused.                    *)
(***************************************************************************)
ExecutionPayloads ==
  LET WithReport(e) == e.type = "EXECUTE" /\ HasPayload(e)
      sel == SelectSeq(input, WithReport)
  IN [j \in 1..Len(sel) |-> sel[j].execution_report.val]

C7_ExecutionReportsInOrder ==
  (pc = "idle" /\ result \notin {"none", "CountMismatch"}
     /\ PrefixDecodable(Len(input))) =>
    /\ result # "returned" => input[Len(input)].type # "EXECUTE"
    /\ IF Len(ExecutionPayloads) = 0
         THEN get_execution_reports(Self).exc = "KeyError"
         ELSE /\ get_execution_reports(Self).exc = "none"
              /\ Len(get_execution_reports(Self).val) = Len(ExecutionPayloads)
              /\ \A j \in 1..Len(ExecutionPayloads) :
                   get_execution_reports(Self).val[j] = ExecutionPayloads[j]

C7_Witness ==
  /\ pc = "idle"
  /\ result = "returned"
  /\ PrefixDecodable(Len(input))
  /\ Len(ExecutionPayloads) = 2
  /\ ExecutionPayloads[1] # ExecutionPayloads[2]
  /\ \E j \in 1..Len(input) : input[j].type = "EXECUTE" /\ ~HasPayload(input[j])

(***************************************************************************)
(* C8: events of a singleton kind without a payload do not count towards   *)
(* the limit of one: a list of decodable payloads with at most one         *)
(* non-empty event of each singleton kind, and any number of empty ones,   *)
(* is decoded without error, and the payload stored for a kind is that of  *)
(* its first event that carries data; the two transfer directions do not   *)
(* count against each other.                                               *)
(***************************************************************************)
PayloadCount(kind) ==
  Cardinality({j \in 1..Len(input) : input[j].type = kind /\ HasPayload(input[j])})

C8_EmptyPayloadsNotCounted ==
  ( /\ pc = "idle"
    /\ result \notin {"none", "CountMismatch"}
    /\ PrefixDecodable(Len(input))
    /\ \A k \in SingletonKinds : PayloadCount(k) <= 1 )
  => /\ result = "returned"
     /\ \A k \in SingletonKinds :
          IF PayloadCount(k) = 0 THEN k \notin DOMAIN events
          ELSE /\ k \in DOMAIN events
               /\ events[k] = Payload(FirstWithPayload(k)).val

C8_Witness ==
  /\ pc = "idle"
  /\ result = "returned"
  /\ PrefixDecodable(Len(input))
  /\ TransferKinds \subseteq DOMAIN events
  /\ \E i \in 1..Len(input) : \E j \in (i + 1)..Len(input) :
       /\ input[i].type = input[j].type
       /\ input[i].type \in SingletonKinds
       /\ ~HasPayload(input[i])
       /\ HasPayload(input[j])

PayloadTiles(js_map) ==
  UNION {UNION {{js_map.mappings[c][i][8][k][1] :
                   k \in 1..Len(js_map.mappings[c][i][8])} :
                i \in 1..Len(js_map.mappings[c])} :
         c \in DOMAIN js_map.mappings}

QueryNumTiles == events["COMPILE_END"].target.numTiles

QueryNumIPUs == events["COMPILE_END"].target.numIPUs

\* floor(t / (numTiles / numIPUs)) in exact arithmetic.
ExactIpu(t) == (t * QueryNumIPUs) \div QueryNumTiles

IpuIdsAsked == qres # <<>> /\ qres[1].query = "ipu_ids"

QueriedTiles == tile_ids(tensor_map[1], qres[1].arg).val

C10_IpuIdsExactFloor ==
  IpuIdsAsked => qres[1].ans = Ok({ExactIpu(t) : t \in QueriedTiles})

(***************************************************************************)
(* What ipu_ids computes in place of the exact floor (C10): the set of      *)
(* int(tile_id / tiles_per_ipu) over the tile ids of the computation, with *)
(* tiles_per_ipu = numTiles / numIPUs and tile_id / tiles_per_ipu both     *)
(* rounded to double precision.  Each id is                                *)
(* floor(tile_id * numIPUs / numTiles), or one less when that quotient is  *)
(* a whole number and numTiles / numIPUs is not a binary fraction; it is   *)
(* the exact floor whenever numTiles / numIPUs is a binary fraction (so    *)
(* whenever numIPUs divides numTiles), and a tile id below numTiles always *)
(* maps to an IPU id below numIPUs.                                        *)
(***************************************************************************)
RECURSIVE Gcd(_, _)
Gcd(a, b) == IF b = 0 THEN a ELSE Gcd(b, a % b)

\* numTiles / numIPUs has a finite binary expansion.
BinaryFraction ==
  LET d == QueryNumIPUs \div Gcd(QueryNumTiles, QueryNumIPUs)
  IN d = Pow2(FloorLog2(d))

IpuOfTile(id, t) ==
  \/ id = ExactIpu(t)
  \/ /\ id = ExactIpu(t) - 1
     /\ t > 0
     /\ (t * QueryNumIPUs) % QueryNumTiles = 0
     /\ ~BinaryFraction

C10_IpuIdsDoubleFloor ==
  IpuIdsAsked =>
    /\ qres[1].ans.exc = "none"
    /\ \A id \in qres[1].ans.val : \E t \in QueriedTiles : IpuOfTile(id, t)
    /\ \A t \in QueriedTiles : \E id \in qres[1].ans.val : IpuOfTile(id, t)
    /\ BinaryFraction => qres[1].ans.val = {ExactIpu(t) : t \in QueriedTiles}
    /\ (\A t \in QueriedTiles : t < QueryNumTiles) =>
         \A id \in qres[1].ans.val : 0 <= id /\ id < QueryNumIPUs

\* The rounded quotient 9 / (18 / 14) falls below 7.
C10_RoundedDown ==
  /\ IpuIdsAsked
  /\ QueryNumTiles = 18
  /\ QueryNumIPUs = 14
  /\ QueriedTiles = {9}
  /\ qres[1].ans = Ok({6})

(***************************************************************************)
(* C11: after a list with exactly one COMPILE_END event carrying a valid   *)
(* report is decoded, get_num_ipus() * get_num_tiles_per_ipu(), truncated  *)
(* to an integer, equals get_num_tiles().                                  *)
(***************************************************************************)
\* int(i * q) for the double q nearest to q.num / q.den and i = q.den.  The
\* exact product lies rem * 2^(exp - 52) below q.num when q was rounded down
\* and at or above it otherwise; the multiplication rounds it back to q.num
\* unless it lies more than half a spacing of the doubles below q.num away.
TruncatedProduct(q) ==
  LET rd == RoundDiv(q.num, q.den)
      e == FloorLog2(q.num)
      lexp == rd.exp + 1 + (IF q.num = Pow2(e) THEN 1 ELSE 0)
      m == IF lexp < e THEN lexp ELSE e
  IN IF rd.dir # "down" THEN q.num
     ELSE IF rd.rem * Pow2(lexp - m) <= Pow2(e - m) THEN q.num
     ELSE q.num - 1

OneReportDecoded ==
  /\ pc = "idle"
  /\ result = "returned"
  /\ Len(input) = 1
  /\ "COMPILE_END" \in DOMAIN events

C11_TilesEqualIpusTimesTilesPerIpu ==
  OneReportDecoded =>
    TruncatedProduct(get_num_tiles_per_ipu(Self).val) = get_num_tiles(Self).val

(***************************************************************************)
(* The name-pattern helpers and assert_all_compute_sets_and_list.          *)
(*                                                                         *)
(* A name or a pattern is a sequence of characters.  fnmatch.fnmatch is    *)
(* modelled for patterns over literal characters, `*' and `?'; the bracket *)
(* expressions of fnmatch are outside the alphabet of the model.           *)
(***************************************************************************)
MaxNames == 2

\* Compute-set names and whitelist entries of the model.
Names == {<<>>, <<"c">>, <<"c", "/">>, <<"p">>}

Patterns == {<<>>, <<"c">>, <<"c", "?">>, <<"*", "p">>}

NameLists == UNION {[1..k -> Names] : k \in 0..MaxNames}

PatternLists == UNION {[1..k -> Patterns] : k \in 0..MaxNames}

\* fnmatch.fnmatch(name, pat): the whole of name matches the pattern.
RECURSIVE fnmatch(_, _)
fnmatch(name, pat) ==
  IF pat = <<>> THEN name = <<>>
  ELSE IF Head(pat) = "*"
         THEN fnmatch(name, Tail(pat))
              \/ (name # <<>> /\ fnmatch(Tail(name), pat))
  ELSE IF Head(pat) = "?"
         THEN name # <<>> /\ fnmatch(Tail(name), Tail(pat))
  ELSE name # <<>> /\ Head(name) = Head(pat)
       /\ fnmatch(Tail(name), Tail(pat))

\* [x + '*' for x in patterns]
with_wildcard(patterns) ==
  [i \in 1..Len(patterns) |-> Append(patterns[i], "*")]

\* [p for p in patterns if fnmatch.fnmatch(item, p)] is not empty.
any_pattern(item, patterns) ==
  \E i \in 1..Len(patterns) : fnmatch(item, patterns[i])

\* [name for name in names if fnmatch.fnmatch(name, x)] is not empty.
any_name(names, x) ==
  \E i \in 1..Len(names) : fnmatch(names[i], x)

RECURSIVE items_matching_loop(_, _, _)
items_matching_loop(items, patterns, matches) ==
  IF items = <<>> THEN matches
  ELSE items_matching_loop(Tail(items), patterns,
         IF any_pattern(Head(items), patterns)
           THEN Append(matches, Head(items)) ELSE matches)

\* The patterns taken as they are, without the wildcard suffix.
items_matching_exact(items, patterns) ==
  items_matching_loop(items, patterns, <<>>)

items_matching_at_least_one_pattern(items, patterns) ==
  items_matching_loop(items, with_wildcard(patterns), <<>>)

names_in_blacklist(names, blacklist) ==
  items_matching_at_least_one_pattern(names, blacklist)

\* The loop of missing_names_in_whitelist_entries without `if name and'.
RECURSIVE missing_names_loop_all(_, _, _)
missing_names_loop_all(names, wl, fail_list) ==
  IF names = <<>> THEN fail_list
  ELSE missing_names_loop_all(Tail(names), wl,
         IF ~any_pattern(Head(names), wl)
           THEN fail_list \o <<Head(names)>> ELSE fail_list)

RECURSIVE missing_names_loop(_, _, _)
missing_names_loop(names, wl, fail_list) ==
  IF names = <<>> THEN fail_list
  ELSE missing_names_loop(Tail(names), wl,
         IF Head(names) # <<>> /\ ~any_pattern(Head(names), wl)
           THEN fail_list \o <<Head(names)>> ELSE fail_list)

missing_names_in_whitelist_entries_all(names, whitelist) ==
  missing_names_loop_all(names, with_wildcard(whitelist), <<>>)

missing_names_in_whitelist_entries(names, whitelist) ==
  missing_names_loop(names, with_wildcard(whitelist), <<>>)

RECURSIVE missing_entries_loop(_, _, _)
missing_entries_loop(names, wl, fail_list) ==
  IF wl = <<>> THEN fail_list
  ELSE missing_entries_loop(names, Tail(wl),
         IF ~any_name(names, Head(wl))
           THEN fail_list \o <<Head(wl)>> ELSE fail_list)

missing_whitelist_entries_in_names(names, whitelist) ==
  missing_entries_loop(names, with_wildcard(whitelist), <<>>)

\* ReportJSON.assert_all_compute_sets_and_list(ok): the value of a failure
\* is the list that made assertFalse fail.
assert_all_compute_sets_and_list(self, ok) ==
  LET cs == get_compute_sets(self)
  IN IF cs.exc # "none" THEN Raise(cs.exc, <<>>)
     ELSE IF missing_whitelist_entries_in_names(cs.val, ok) # <<>>
       THEN Raise("AssertionError", missing_whitelist_entries_in_names(cs.val, ok))
     ELSE IF missing_names_in_whitelist_entries(cs.val, ok) # <<>>
       THEN Raise("AssertionError", missing_names_in_whitelist_entries(cs.val, ok))
     ELSE Ok(<<>>)

\* A compilation report with the given compute-set names.
ReportJsonNames(names) ==
  [ReportJson(2, 4) EXCEPT !.computeSets.names = names]

NamesEvents ==
  {CompileEndEvent(Txt("json", ReportJsonNames(names)),
                   Txt("json", TensorMapJson(0, 1)), Txt("json", InfoJson)) :
     names \in NameLists}
     \cup {CompileEndEvent(NoCR, NoTM, NoII)}

\* parse_events([evt]) on a new object, evt a COMPILE_END event.
DecodeNames ==
  /\ pc = "idle"
  /\ ~has_attrs
  /\ \E evt \in NamesEvents :
       \E r \in {parse_loop(reset(Self), EmptyDict, <<evt>>)} :
          /\ input' = <<evt>>
          /\ n' = 1
          /\ has_attrs' = r.val.has_attrs
          /\ events' = r.val.events
          /\ tensor_map' = r.val.tensor_map
          /\ instruction_info' = r.val.instruction_info
          /\ events_types' = r.hist
          /\ result' = IF r.exc = "none" THEN "returned" ELSE r.exc
          /\ ret' = IF r.exc = "none" THEN r.hist ELSE EmptyDict
  /\ UNCHANGED <<pc, assert_len, assert_msg, err_msg, redecode, qres>>
  /\ UNCHANGED <<queue_vars, tool_vars>>

\* assert_all_compute_sets_and_list(ok) on the decoded object.
AssertComputeSets ==
  /\ pc = "idle"
  /\ result = "returned"
  /\ \E ok \in PatternLists :
       qres' = <<[query |-> "assert_all_compute_sets_and_list", arg |-> ok,
                  ans |-> assert_all_compute_sets_and_list(Self, ok)]>>
  /\ UNCHANGED <<has_attrs, events, tensor_map, instruction_info, pc, n,
                 assert_len, assert_msg, events_types, input, result, ret,
                 err_msg, redecode>>
  /\ UNCHANGED <<queue_vars, tool_vars>>

\* The three helpers applied to the decoded compute-set names and a list of
\* patterns.
MatchHelpers ==
  /\ pc = "idle"
  /\ result = "returned"
  /\ get_compute_sets(Self).exc = "none"
  /\ \E pats \in PatternLists :
       LET names == get_compute_sets(Self).val
       IN qres' = <<[query |-> "helpers",
                     arg |-> [names |-> names, patterns |-> pats],
                     ans |-> [blacklisted |-> names_in_blacklist(names, pats),
                              missing_names |->
                                missing_names_in_whitelist_entries(names, pats),
                              missing_entries |->
                                missing_whitelist_entries_in_names(names, pats)]]>>
  /\ UNCHANGED <<has_attrs, events, tensor_map, instruction_info, pc, n,
                 assert_len, assert_msg, events_types, input, result, ret,
                 err_msg, redecode>>
  /\ UNCHANGED <<queue_vars, tool_vars>>

NextMatch == DecodeNames \/ AssertComputeSets \/ MatchHelpers

SpecMatch == Init /\ [][NextMatch]_vars

(***************************************************************************)
(* C12, as claimed: assert_all_compute_sets_and_list passes if and only if *)
(* every compute-set name matches at least one whitelist pattern and every *)
(* pattern matches at least one name; the helpers return the names that    *)
(* match no pattern, in input order, and the patterns that match no name.  *)
(***************************************************************************)
\* The cuts of s, one after each character of the pattern p, under which s
\* is an instance of p followed by a wildcard.
GlobCuts(s, p) ==
  {c \in [0..Len(p) -> 0..Len(s)] :
     /\ c[0] = 0
     /\ \A i \in 1..Len(p) :
          IF p[i] = "*" THEN c[i] >= c[i - 1]
          ELSE /\ c[i] = c[i - 1] + 1
               /\ p[i] = "?" \/ s[c[i]] = p[i]}

\* The name s matches the whitelist entry p taken with its wildcard suffix.
Matches(s, p) == GlobCuts(s, p) # {}

MatchesSome(s, pats) == \E i \in 1..Len(pats) : Matches(s, pats[i])

MatchedBySome(names, p) == \E i \in 1..Len(names) : Matches(names[i], p)

WhitelistAsked ==
  qres # <<>> /\ qres[1].query = "assert_all_compute_sets_and_list"

HelpersAsked == qres # <<>> /\ qres[1].query = "helpers"

Unmatched(s, pats) == ~MatchesSome(s, pats)

MaxComps == 2

\* The JSON of a tensor map of three computations: c0 holds a tensor on tile
\* ta and a tensor on tile tb, c1 one tensor on the tiles tb and tc, c2 no
\* tensor.
TensorMapJson3(ta, tb, tc) ==
  [mappings |-> [c \in {"c0", "c1", "c2"} |->
     CASE c = "c0" -> <<JsTensor("i0", <<ta>>), JsTensor("i1", <<tb>>)>>
       [] c = "c1" -> <<JsTensor("i2", <<tb, tc>>)>>
       [] OTHER -> <<>>]]

TileEvents ==
  {CompileEndEvent(Txt("json", ReportJson(2, 4)),
                   Txt("json", TensorMapJson3(ta, tb, tc)), Txt("json", InfoJson)) :
     ta \in 0..3, tb \in 0..3, tc \in 0..3}

\* The computation arguments: None, a name (the empty string and a name of
\* no computation among them) and lists of names.
CompNames == {"c0", "c1", "c2"}

TileArgs ==
  {NoneArg} \cup {StrArg(c) : c \in CompNames \cup {"", "cx"}}
    \cup {ListArg(l) : l \in UNION {[1..k -> CompNames] : k \in 0..MaxComps}}
    \cup {ListArg(<<"c0", "cx">>)}

\* parse_events([evt]) on a new object, evt a COMPILE_END event.
DecodeTiles ==
  /\ pc = "idle"
  /\ ~has_attrs
  /\ \E evt \in TileEvents :
       \E r \in {parse_loop(reset(Self), EmptyDict, <<evt>>)} :
          /\ input' = <<evt>>
          /\ n' = 1
          /\ has_attrs' = r.val.has_attrs
          /\ events' = r.val.events
          /\ tensor_map' = r.val.tensor_map
          /\ instruction_info' = r.val.instruction_info
          /\ events_types' = r.hist
          /\ result' = IF r.exc = "none" THEN "returned" ELSE r.exc
          /\ ret' = IF r.exc = "none" THEN r.hist ELSE EmptyDict
  /\ UNCHANGED <<pc, assert_len, assert_msg, err_msg, redecode, qres>>
  /\ UNCHANGED <<queue_vars, tool_vars>>

\* get_tensor_map().tile_ids(computation).
QueryTileIds ==
  /\ pc = "idle"
  /\ result = "returned"
  /\ tensor_map # None
  /\ \E c \in TileArgs :
       qres' = <<[query |-> "tile_ids", arg |-> c, ans |-> tile_ids(tensor_map[1], c)]>>
  /\ UNCHANGED <<has_attrs, events, tensor_map, instruction_info, pc, n,
                 assert_len, assert_msg, events_types, input, result, ret,
                 err_msg, redecode>>
  /\ UNCHANGED <<queue_vars, tool_vars>>

NextTiles == DecodeTiles \/ QueryTileIds

SpecTiles == Init /\ [][NextTiles]_vars

(***************************************************************************)
(* C13: tile_ids() with no computation given is the union of the tile ids  *)
(* of all tensors of all computations; with one computation name it is the *)
(* tile ids of the tensors of that computation; with a list of names it is *)
(* the union over exactly the listed computations.                         *)
(***************************************************************************)
\* The tile ids the tensor-map payload lists for the computation c.
PayloadTilesOf(js_map, c) ==
  UNION {{js_map.mappings[c][i][8][k][1] :
            k \in 1..Len(js_map.mappings[c][i][8])} :
         i \in 1..Len(js_map.mappings[c])}

TileIdsAsked == qres # <<>> /\ qres[1].query = "tile_ids"

DecodedPayload == input[1].tensor_map.val

Listed(arg) == {arg.names[i] : i \in 1..Len(arg.names)}

C13_TileIdsOfComputations ==
  TileIdsAsked =>
    LET arg == qres[1].arg
        js_map == DecodedPayload
        comps == DOMAIN js_map.mappings
    IN /\ arg.kind = "none" =>
            qres[1].ans = Ok(UNION {PayloadTilesOf(js_map, c) : c \in comps})
       /\ (arg.kind = "str" /\ arg.names[1] \in comps) =>
            qres[1].ans = Ok(PayloadTilesOf(js_map, arg.names[1]))
       /\ (arg.kind = "list" /\ Listed(arg) \subseteq comps) =>
            qres[1].ans = Ok(UNION {PayloadTilesOf(js_map, c) : c \in Listed(arg)})

\* A list of two computations whose union is neither computation's tiles nor
\* the tiles of the whole map, and a single name with fewer tiles than the map.
C13_Witness ==
  /\ TileIdsAsked
  /\ \/ /\ qres[1].arg = ListArg(<<"c1", "c2">>)
        /\ qres[1].ans = Ok({1, 2})
        /\ PayloadTilesOf(DecodedPayload, "c0") = {0, 1}
     \/ /\ qres[1].arg = StrArg("c0")
        /\ qres[1].ans = Ok({0, 1})
        /\ PayloadTilesOf(DecodedPayload, "c1") = {1, 2}

(***************************************************************************)
(* Decoding a compilation report given as JSON text.                       *)
(***************************************************************************)
\* The tokens of a JSON array of strings.
RECURSIVE json_names(_)
json_names(names) ==
  IF Len(names) = 0 THEN <<>>
  ELSE IF Len(names) = 1 THEN <<StrTok(names[1])>>
  ELSE <<StrTok(names[1]), Tok(",")>> \o json_names(Tail(names))

\* The tokens of the report
\* {"target": {"numIPUs": 2, "numTiles": 4},
\*  "vertexTypes": {"names": [...]}, "computeSets": {"names": [...]}}.
json_report(vertices, names) ==
  <<Tok("{"), StrTok("target"), Tok(":"), Tok("{"),
      StrTok("numIPUs"), Tok(":"), NumTok(2), Tok(","),
      StrTok("numTiles"), Tok(":"), NumTok(4), Tok("}"), Tok(","),
    StrTok("vertexTypes"), Tok(":"), Tok("{"), StrTok("names"), Tok(":"),
      Tok("[")>> \o json_names(vertices) \o <<Tok("]"), Tok("}"), Tok(","),
    StrTok("computeSets"), Tok(":"), Tok("{"), StrTok("names"), Tok(":"),
      Tok("[")>> \o json_names(names) \o <<Tok("]"), Tok("}"), Tok("}")>>

\* A report payload as JSON text, with the lists it was written from.
ReportText(vertices, names) ==
  [enc |-> "text", val |-> json_report(vertices, names),
   of |-> [vertices |-> vertices, names |-> names]]

\* The text of a report cut before its last brace.
CutReportText(vertices, names) ==
  [enc |-> "text",
   val |-> SubSeq(json_report(vertices, names), 1,
                  Len(json_report(vertices, names)) - 1),
   of |-> [vertices |-> vertices, names |-> names]]

ComputeSetNames == {"", "cs0", "cs1", "v0"}

VertexNames == {"v0", "v1"}

TextEvents ==
  {CompileEndEvent(cr, Txt("json", TensorMapJson(0, 1)), Txt("json", InfoJson)) :
     cr \in {ReportText(vs, ns) :
               vs \in UNION {[1..k -> VertexNames] : k \in 0..MaxNames},
               ns \in UNION {[1..k -> ComputeSetNames] : k \in 0..MaxNames}}
            \cup {CutReportText(<<"v0">>, <<"cs0">>)}}

\* parse_events([evt]) on a new object, evt a COMPILE_END event whose report
\* is JSON text.
DecodeText ==
  /\ pc = "idle"
  /\ ~has_attrs
  /\ \E evt \in TextEvents :
       \E r \in {parse_loop(reset(Self), EmptyDict, <<evt>>)} :
          /\ input' = <<evt>>
          /\ n' = 1
          /\ has_attrs' = r.val.has_attrs
          /\ events' = r.val.events
          /\ tensor_map' = r.val.tensor_map
          /\ instruction_info' = r.val.instruction_info
          /\ events_types' = r.hist
          /\ result' = IF r.exc = "none" THEN "returned" ELSE r.exc
          /\ ret' = IF r.exc = "none" THEN r.hist ELSE EmptyDict
  /\ UNCHANGED <<pc, assert_len, assert_msg, err_msg, redecode, qres>>
  /\ UNCHANGED <<queue_vars, tool_vars>>

\* get_compute_sets() and get_vertices() on the decoded object.
QueryNames ==
  /\ pc = "idle"
  /\ has_attrs
  /\ qres' = <<[query |-> "get_compute_sets", arg |-> <<>>,
                ans |-> get_compute_sets(Self),
                vertices |-> get_vertices(Self)]>>
  /\ UNCHANGED <<has_attrs, events, tensor_map, instruction_info, pc, n,
                 assert_len, assert_msg, events_types, input, result, ret,
                 err_msg, redecode>>
  /\ UNCHANGED <<queue_vars, tool_vars>>

NextText == DecodeText \/ QueryNames

SpecText == Init /\ [][NextText]_vars

(***************************************************************************)
(* C14: decoding a report whose computeSets.names holds N names yields     *)
(* get_compute_sets() of length N with the same names in the same order.   *)
(***************************************************************************)
ComputeSetsAsked == qres # <<>> /\ qres[1].query = "get_compute_sets"

WrittenNames == input[1].compilation_report.of.names

C14_ComputeSetsRoundTrip ==
  (ComputeSetsAsked /\ result = "returned") =>
    /\ qres[1].ans.exc = "none"
    /\ Len(qres[1].ans.val) = Len(WrittenNames)
    /\ \A i \in 1..Len(WrittenNames) : qres[1].ans.val[i] = WrittenNames[i]

\* Two different names, one of them also a vertex name and written twice in
\* the report, come back in the order written.
C14_Witness ==
  /\ ComputeSetsAsked
  /\ result = "returned"
  /\ WrittenNames = <<"v0", "cs0">>
  /\ input[1].compilation_report.of.vertices = <<"v0">>
  /\ qres[1].ans = Ok(<<"v0", "cs0">>)

(***************************************************************************)
(* The memory queries on reports with given per-tile lists.                *)
(***************************************************************************)
MaxMem == 4

MemValues == {10, 20, 30, 40}

\* A compilation report of 2 IPUs and 4 tiles with the given per-tile totals
\* and always-live bytes.
ReportJsonMemory(total, live) ==
  [ReportJson(2, 4) EXCEPT !.memory.byTile.total = total,
                           !.memory.liveness.alwaysLive.bytesByTile = live]

MemoryEvents ==
  {CompileEndEvent(Txt("json", ReportJsonMemory(total, live)),
                   Txt("json", TensorMapJson(0, 1)), Txt("json", InfoJson)) :
     total \in UNION {[1..k -> MemValues] : k \in 0..MaxMem},
     live \in {<<>>, <<1, 2, 3, 4>>, <<5, 5>>}}

\* parse_events([evt]) on a new object, evt a COMPILE_END event.
DecodeMemory ==
  /\ pc = "idle"
  /\ ~has_attrs
  /\ \E evt \in MemoryEvents :
       \E r \in {parse_loop(reset(Self), EmptyDict, <<evt>>)} :
          /\ input' = <<evt>>
          /\ n' = 1
          /\ has_attrs' = r.val.has_attrs
          /\ events' = r.val.events
          /\ tensor_map' = r.val.tensor_map
          /\ instruction_info' = r.val.instruction_info
          /\ events_types' = r.hist
          /\ result' = IF r.exc = "none" THEN "returned" ELSE r.exc
          /\ ret' = IF r.exc = "none" THEN r.hist ELSE EmptyDict
  /\ UNCHANGED <<pc, assert_len, assert_msg, err_msg, redecode, qres>>
  /\ UNCHANGED <<queue_vars, tool_vars>>

\* The memory queries and get_num_ipus() on the decoded object.
QueryMemory ==
  /\ pc = "idle"
  /\ result = "returned"
  /\ qres' = <<[query |-> "memory", arg |-> <<>>,
                ans |-> [each |-> get_each_tile_memory(Self),
                         total |-> get_total_tile_memory(Self),
                         max |-> get_max_tile_memory(Self),
                         always_live |-> get_always_live_memory(Self),
                         num_ipus |-> get_num_ipus(Self)]]>>
  /\ UNCHANGED <<has_attrs, events, tensor_map, instruction_info, pc, n,
                 assert_len, assert_msg, events_types, input, result, ret,
                 err_msg, redecode>>
  /\ UNCHANGED <<queue_vars, tool_vars>>

NextMemory == DecodeMemory \/ QueryMemory

SpecMemory == Init /\ [][NextMemory]_vars

(***************************************************************************)
(* C15: for a decoded compilation report, get_total_tile_memory() is the   *)
(* sum and get_max_tile_memory() the maximum of get_each_tile_memory(),    *)
(* and get_always_live_memory() is the sum of the always-live bytes per    *)
(* tile; 4 tiles on 2 IPUs with byTile = [10, 20, 30, 40] give 2 IPUs, a   *)
(* total of 100 and a maximum of 40.                                       *)
(***************************************************************************)
MemoryAsked == qres # <<>> /\ qres[1].query = "memory"

\* The sum of a list, value by value: each value times its occurrences.
SumByValue(list) ==
  LET vals == {list[i] : i \in 1..Len(list)}
      weight == [v \in vals |-> v * Cardinality({i \in 1..Len(list) : list[i] = v})]
  IN SumOver(weight, vals)

WrittenTotals == input[1].compilation_report.val.memory.byTile.total

WrittenLive ==
  input[1].compilation_report.val.memory.liveness.alwaysLive.bytesByTile

C15_MemorySumsAndMax ==
  MemoryAsked =>
    LET a == qres[1].ans
    IN /\ a.each = Ok(WrittenTotals)
       /\ a.total.exc = "none" /\ a.total.val = SumByValue(a.each.val)
       /\ a.always_live.exc = "none"
       /\ a.always_live.val = SumByValue(WrittenLive)
       /\ Len(a.each.val) > 0 =>
            /\ a.max.exc = "none"
            /\ \E i \in 1..Len(a.each.val) : a.each.val[i] = a.max.val
            /\ \A i \in 1..Len(a.each.val) : a.each.val[i] <= a.max.val
       /\ WrittenTotals = <<10, 20, 30, 40>> =>
            /\ a.num_ipus = Ok(2)
            /\ a.total.val = 100
            /\ a.max.val = 40

C15_Witness ==
  /\ MemoryAsked
  /\ WrittenTotals = <<10, 20, 30, 40>>
  /\ WrittenLive = <<1, 2, 3, 4>>
  /\ qres[1].ans.total = Ok(100)
  /\ qres[1].ans.max = Ok(40)
  /\ qres[1].ans.always_live = Ok(10)
  /\ get_num_tiles(Self) = Ok(4)

(***************************************************************************)
(* IPUInfeedQueue (tensorflow/python/ipu/ipu_infeed_queue.py).             *)
(*                                                                         *)
(* A dataset is its flat list of output shapes and the batch sizes applied *)
(* to it; every dataset and operation the queue creates is appended to     *)
(* `graph'.  A method takes self and the graph and gives its outcome with  *)
(* the object and the graph it leaves.                                     *)
(***************************************************************************)
MaxShapes == 2

MaxFactor == 3

MaxCalls == 2

\* An output shape: fully defined, with an unknown dimension, or a nested
\* list or tuple of shapes.
ShapeKinds == {"defined", "partial", "list", "tuple"}

Dataset(shapes) == [output_shapes |-> shapes, batches |-> <<>>, options |-> FALSE]

NoDataset == Dataset(<<>>)

\* An entry of the graph.
GraphOp(op, dataset, feed_id, replication_factor, device_ordinal, data_to_prefetch) ==
  [op |-> op, dataset |-> dataset, feed_id |-> feed_id,
   replication_factor |-> replication_factor,
   device_ordinal |-> device_ordinal, data_to_prefetch |-> data_to_prefetch]

\* dataset.batch(batch_size, drop_remainder=True): a new dataset.
Dataset_batch(dataset, batch_size) ==
  [dataset EXCEPT !.batches = Append(@, batch_size)]

BatchOp(dataset) == GraphOp("BatchDataset", dataset, "", 0, 0, 0)

\* dataset._apply_options().
Dataset_apply_options(dataset) == [dataset EXCEPT !.options = TRUE]

\* gen_pop_datastream_ops.ipu_consume_dataset(...).
ipu_consume_dataset(input_dataset, feed_id, replication_factor, device_ordinal) ==
  GraphOp("IPUConsumeDataset", input_dataset, feed_id, replication_factor,
          device_ordinal, 0)

\* gen_pop_datastream_ops.pop_datastream_infeed_dequeue(...).
pop_datastream_infeed_dequeue(feed_id, replication_factor, data_to_prefetch, shapes) ==
  GraphOp("PopDatastreamInfeedDequeue", Dataset(shapes), feed_id,
          replication_factor, 0, data_to_prefetch)

\* The outcome of a method on the queue.
Outcome(ans, self, g) == [ans |-> ans, self |-> self, graph |-> g]

\* The first output shape the loop of __init__ refuses: 0 when there is none.
RECURSIVE first_bad_shape(_, _)
first_bad_shape(shapes, i) ==
  IF i > Len(shapes) THEN 0
  ELSE IF shapes[i] # "defined" THEN i
  ELSE first_bad_shape(shapes, i + 1)

shape_error(shape) ==
  IF shape \in {"list", "tuple"}
    THEN "Nested list/tuple input shapes are not supported"
    ELSE "Output shape is not fully defined"

\* max(1, data_to_prefetch)
Max(a, b) == IF a >= b THEN a ELSE b

\* The statements of __init__ after the check of the shapes.
IPUInfeedQueue_build(args, g, prefetch) ==
  LET d0 == Dataset(args.output_shapes)
      d1 == IF prefetch # 1 THEN Dataset_batch(d0, prefetch) ELSE d0
      g1 == IF prefetch # 1 THEN Append(g, BatchOp(d1)) ELSE g
      d2 == IF args.replication_factor # 1
              THEN Dataset_batch(d1, args.replication_factor) ELSE d1
      g2 == IF args.replication_factor # 1 THEN Append(g1, BatchOp(d2)) ELSE g1
      d3 == Dataset_apply_options(d2)
      init_op == ipu_consume_dataset(d3, args.feed_name, args.replication_factor,
                                     args.device_ordinal)
  IN Outcome(Ok(<<>>),
             <<[_replication_factor |-> args.replication_factor,
                _dataset |-> d3,
                _structure |-> args.output_shapes,
                _flat_structure |-> args.output_shapes,
                _data_to_prefetch |-> prefetch,
                _id |-> args.feed_name,
                _initializer |-> init_op,
                _dequeued |-> FALSE,
                _initialized |-> FALSE]>>,
             Append(g2, init_op))

\* __init__ that builds the queue before it looks at the shapes.
IPUInfeedQueue_init_late_check(args, g) ==
  LET bad == first_bad_shape(args.output_shapes, 1)
      built == IPUInfeedQueue_build(args, g, Max(1, args.data_to_prefetch))
  IN IF bad # 0
       THEN Outcome(Raise("ValueError", shape_error(args.output_shapes[bad])),
                    <<>>, built.graph)
       ELSE built

\* __init__ that clamps the prefetch with max(0, data_to_prefetch).
IPUInfeedQueue_init_clamp_zero(args, g) ==
  LET bad == first_bad_shape(args.output_shapes, 1)
  IN IF bad # 0
       THEN Outcome(Raise("ValueError", shape_error(args.output_shapes[bad])),
                    <<>>, g)
       ELSE IPUInfeedQueue_build(args, g, Max(0, args.data_to_prefetch))

\* IPUInfeedQueue.__init__(dataset, feed_name, device_ordinal,
\* replication_factor, data_to_prefetch): a refused dataset leaves no object.
IPUInfeedQueue_init(args, g) ==
  LET bad == first_bad_shape(args.output_shapes, 1)
  IN IF bad # 0
       THEN Outcome(Raise("ValueError", shape_error(args.output_shapes[bad])),
                    <<>>, g)
       ELSE IPUInfeedQueue_build(args, g, Max(1, args.data_to_prefetch))

\* _dequeue that leaves the flag alone.
IPUInfeedQueue_dequeue_no_flag(self, g) ==
  LET flat_ret == pop_datastream_infeed_dequeue(self._id, self._replication_factor,
                                                self._data_to_prefetch,
                                                self._flat_structure)
  IN Outcome(Ok(flat_ret), self, Append(g, flat_ret))

\* _dequeue that marks the queue as initialized too.
IPUInfeedQueue_dequeue_initializes(self, g) ==
  LET flat_ret == pop_datastream_infeed_dequeue(self._id, self._replication_factor,
                                                self._data_to_prefetch,
                                                self._flat_structure)
  IN Outcome(Ok(flat_ret), [self EXCEPT !._dequeued = TRUE, !._initialized = TRUE],
             Append(g, flat_ret))

\* IPUInfeedQueue._dequeue().
IPUInfeedQueue_dequeue(self, g) ==
  LET flat_ret == pop_datastream_infeed_dequeue(self._id, self._replication_factor,
                                                self._data_to_prefetch,
                                                self._flat_structure)
  IN Outcome(Ok(flat_ret), [self EXCEPT !._dequeued = TRUE], Append(g, flat_ret))

\* IPUInfeedQueue.dequeued.
IPUInfeedQueue_dequeued(self, g) == Outcome(Ok(self._dequeued), self, g)

\* initializer that hands out the operation on every access.
IPUInfeedQueue_initializer_always(self, g) ==
  Outcome(Ok(self._initializer), [self EXCEPT !._initialized = TRUE], g)

\* IPUInfeedQueue.initializer.
IPUInfeedQueue_initializer(self, g) ==
  IF self._initialized
    THEN Outcome(Raise("ValueError",
                       "The IPUInfeedQueue initializer function can only be accessed once."),
                 self, g)
    ELSE Outcome(Ok(self._initializer), [self EXCEPT !._initialized = TRUE], g)

\* get_next that dequeues.
IPUInfeedQueue_get_next_dequeue(self, g) == IPUInfeedQueue_dequeue(self, g)

\* IPUInfeedQueue.get_next().
IPUInfeedQueue_get_next(self, g) ==
  Outcome(Raise("ValueError", "get_next() is now obsolete"), self, g)

\* The arguments of __init__ in the model.
InitArgs ==
  {[output_shapes |-> shapes, feed_name |-> "feed", device_ordinal |-> 0,
    replication_factor |-> r, data_to_prefetch |-> d] :
     shapes \in UNION {[1..k -> ShapeKinds] : k \in 0..MaxShapes},
     r \in 1..MaxFactor, d \in 0..MaxFactor}

\* IPUInfeedQueue(dataset, feed_name, ...): the queue of the model is built
\* once; a refused dataset leaves nothing behind and another may be tried.
Construct ==
  /\ queue = <<>>
  /\ \E args \in InitArgs :
       LET r == IPUInfeedQueue_init(args, graph)
       IN /\ queue' = r.self
          /\ graph' = r.graph
          /\ last' = [op |-> "__init__", ans |-> r.ans]
          /\ calls' = [NoCalls EXCEPT !.args = args]
  /\ UNCHANGED <<report_vars, tool_vars>>

\* An access of queue.initializer.
Initializer ==
  /\ queue # <<>>
  /\ calls.initializer < MaxCalls
  /\ LET r == IPUInfeedQueue_initializer(queue[1], graph)
     IN /\ queue' = <<r.self>>
        /\ graph' = r.graph
        /\ last' = [op |-> "initializer", ans |-> r.ans]
  /\ calls' = [calls EXCEPT !.initializer = @ + 1]
  /\ UNCHANGED <<report_vars, tool_vars>>

\* A call of queue._dequeue() by a loop.
Dequeue ==
  /\ queue # <<>>
  /\ calls.dequeue < MaxCalls
  /\ LET r == IPUInfeedQueue_dequeue(queue[1], graph)
     IN /\ queue' = <<r.self>>
        /\ graph' = r.graph
        /\ last' = [op |-> "_dequeue", ans |-> r.ans]
  /\ calls' = [calls EXCEPT !.dequeue = @ + 1]
  /\ UNCHANGED <<report_vars, tool_vars>>

\* A read of queue.dequeued.
ReadDequeued ==
  /\ queue # <<>>
  /\ LET r == IPUInfeedQueue_dequeued(queue[1], graph)
     IN /\ queue' = <<r.self>>
        /\ graph' = r.graph
        /\ last' = [op |-> "dequeued", ans |-> r.ans]
  /\ UNCHANGED <<calls, report_vars, tool_vars>>

\* A call of queue.get_next().
GetNext ==
  /\ queue # <<>>
  /\ calls.get_next < MaxCalls
  /\ LET r == IPUInfeedQueue_get_next(queue[1], graph)
     IN /\ queue' = <<r.self>>
        /\ graph' = r.graph
        /\ last' = [op |-> "get_next", ans |-> r.ans]
  /\ calls' = [calls EXCEPT !.get_next = @ + 1]
  /\ UNCHANGED <<report_vars, tool_vars>>

NextQueue == Construct \/ Initializer \/ Dequeue \/ ReadDequeued \/ GetNext

SpecQueue == Init /\ [][NextQueue]_vars

(***************************************************************************)
(* Claims on the infeed queue.                                             *)
(***************************************************************************)
QueueBuilt == queue # <<>>

\* The operations of a kind created so far, in order of creation.
GraphOps(kind) ==
  LET OfKind(o) == o.op = kind IN SelectSeq(graph, OfKind)

(***************************************************************************)
(* C16: whatever the operations on the queue, the first access of          *)
(* initializer returns the initializer operation and every later access    *)
(* raises ValueError; a failed access leaves the queue initialized and     *)
(* otherwise as it was.                                                    *)
(***************************************************************************)
C16_InitializerOnlyOnce ==
  /\ [](/\ QueueBuilt => (queue[1]._initialized <=> calls.initializer > 0)
        /\ last.op = "initializer" =>
             /\ calls.initializer = 1 =>
                  /\ last.ans.exc = "none"
                  /\ GraphOps("IPUConsumeDataset") = <<last.ans.val>>
             /\ calls.initializer > 1 => last.ans.exc = "ValueError")
  /\ [][(calls'.initializer # calls.initializer /\ calls.initializer > 0) =>
          (queue' = queue /\ graph' = graph)]_vars

C16_Witness ==
  /\ last.op = "initializer"
  /\ calls.initializer = 2
  /\ calls.dequeue > 0
  /\ last.ans.exc = "ValueError"
  /\ queue[1]._initialized

(***************************************************************************)
(* C17: dequeued is False from the construction of the queue until the     *)
(* first _dequeue call, True after it, and never False again.              *)
(***************************************************************************)
C17_DequeuedLatches ==
  /\ [](/\ QueueBuilt => (queue[1]._dequeued <=> calls.dequeue > 0)
        /\ last.op = "dequeued" => last.ans.val = (calls.dequeue > 0))
  /\ [][(QueueBuilt /\ queue[1]._dequeued) =>
          (queue' # <<>> /\ queue'[1]._dequeued)]_vars

C17_Witness ==
  /\ last.op = "dequeued"
  /\ last.ans.val = TRUE
  /\ calls.dequeue = 1
  /\ calls.initializer > 0
  /\ calls.get_next > 0

(***************************************************************************)
(* C18: constructing a queue on a dataset with an output shape that is not *)
(* fully defined, or that is a nested list or tuple, raises ValueError     *)
(* before any state of the queue is set: no object is left, no initializer *)
(* operation is created and no batching is applied.                        *)
(***************************************************************************)
RefusedShapes(shapes) == \E i \in 1..Len(shapes) : shapes[i] # "defined"

C18_BadShapesRefused ==
  (last.op = "__init__" /\ RefusedShapes(calls.args.output_shapes)) =>
    /\ last.ans.exc = "ValueError"
    /\ queue = <<>>
    /\ graph = <<>>

C18_Witness ==
  /\ last.op = "__init__"
  /\ calls.args.output_shapes = <<"defined", "tuple">>
  /\ calls.args.data_to_prefetch = 2
  /\ calls.args.replication_factor = 3
  /\ last.ans.exc = "ValueError"

(***************************************************************************)
(* C19: the stored prefetch is max(1, data_to_prefetch), so 0 and 1 build  *)
(* the same queue; the dataset is batched by the stored prefetch when that *)
(* is not 1, then by replication_factor when that is not 1, in this order, *)
(* and every dequeue operation is given the stored prefetch.               *)
(***************************************************************************)
Clamped(d) == IF d > 1 THEN d ELSE 1

ExpectedBatches(args) ==
  (IF Clamped(args.data_to_prefetch) # 1
     THEN <<Clamped(args.data_to_prefetch)>> ELSE <<>>)
  \o (IF args.replication_factor # 1 THEN <<args.replication_factor>> ELSE <<>>)

C19_PrefetchClamped ==
  QueueBuilt =>
    LET args == calls.args
        other == [args EXCEPT !.data_to_prefetch = 1 - @]
        batched == GraphOps("BatchDataset")
        dequeues == GraphOps("PopDatastreamInfeedDequeue")
    IN /\ queue[1]._data_to_prefetch = Clamped(args.data_to_prefetch)
       /\ queue[1]._dataset.batches = ExpectedBatches(args)
       /\ Len(batched) = Len(ExpectedBatches(args))
       /\ \A i \in 1..Len(batched) :
            batched[i].dataset.batches = SubSeq(ExpectedBatches(args), 1, i)
       /\ Len(dequeues) = calls.dequeue
       /\ \A i \in 1..Len(dequeues) :
            dequeues[i].data_to_prefetch = Clamped(args.data_to_prefetch)
       /\ args.data_to_prefetch \in {0, 1} =>
            /\ queue[1]._dataset.batches = ExpectedBatches(other)
            /\ queue[1]._data_to_prefetch = 1
            /\ queue[1]._initializer = IPUInfeedQueue_init(other, <<>>).self[1]._initializer

C19_Witness ==
  /\ QueueBuilt
  /\ \/ /\ calls.args.data_to_prefetch = 3
        /\ calls.args.replication_factor = 2
        /\ queue[1]._dataset.batches = <<3, 2>>
        /\ last.op = "_dequeue"
        /\ last.ans.val.data_to_prefetch = 3
     \/ /\ calls.args.data_to_prefetch = 0
        /\ calls.args.replication_factor = 2
        /\ queue[1]._dataset.batches = <<2>>
        /\ last.op = "_dequeue"
        /\ last.ans.val.data_to_prefetch = 1

MaxDevices == 3

MaxRuns == 1

\* opts.profiling.max_report_size = 0x10000000.
max_report_size == 268435456

\* The arguments of the signature with their default values.
DefaultArgs ==
  [compilation_trace |-> TRUE, io_trace |-> FALSE, execution_trace |-> TRUE,
   report_every_nth_execution |-> 0, text_report |-> TRUE,
   cbor_report |-> FALSE, sharded |-> FALSE, pipelining |-> FALSE,
   replicated |-> FALSE, compile_ipu_code |-> FALSE,
   enable_ipu_events |-> FALSE, prefetch_data_streams |-> TRUE,
   engine_opts |-> None, device_count_override |-> None,
   max_cross_replica_sum_buffer_size |-> 0,
   max_inter_ipu_copies_buffer_size |-> 0, merge_infeed_io_copies |-> FALSE,
   always_rearrange_copies_on_the_host |-> FALSE, serialization_folder |-> ""]

\* IpuOptions() with the fields set before the assertions.
IpuOptions(args) ==
  [profiling |->
     [enable_ipu_trace_events |->
        (args.compilation_trace \/ args.io_trace \/ args.execution_trace
           \/ args.enable_ipu_events),
      enable_compilation_trace |-> args.compilation_trace,
      enable_io_trace |-> args.io_trace,
      enable_execution_trace |-> args.execution_trace,
      enable_poplar_reports_text |-> args.text_report,
      enable_poplar_reports_cbor |-> args.cbor_report,
      report_every_nth_execution |-> args.report_every_nth_execution,
      max_report_size |-> max_report_size],
   ipu_model_config |->
     [enable_ipu_model |-> TRUE, compile_ipu_code |-> args.compile_ipu_code],
   prefetch_data_streams |-> args.prefetch_data_streams,
   max_cross_replica_sum_buffer_size |-> args.max_cross_replica_sum_buffer_size,
   max_inter_ipu_copies_buffer_size |-> args.max_inter_ipu_copies_buffer_size,
   speed_size_config |->
     [merge_infeed_io_copies |-> args.merge_infeed_io_copies,
      always_rearrange_copies_on_the_host |->
        args.always_rearrange_copies_on_the_host],
   serialization_folder |-> args.serialization_folder,
   compilation_options |-> <<>>,
   device_config |-> <<>>]

\* for o in engine_opts.items(): opts.compilation_options.add() ...
compilation_options(args) ==
  IF args.engine_opts = None THEN <<>>
  ELSE [i \in 1..Len(args.engine_opts[1]) |->
          [option |-> args.engine_opts[1][i][1],
           value |-> args.engine_opts[1][i][2]]]

\* The if / elif chain that chooses device_count.
device_count(args) ==
  IF IntTruthy(args.device_count_override) THEN args.device_count_override[1]
  ELSE IF args.sharded THEN 2 * (IF args.replicated THEN 2 ELSE 1)
  ELSE IF args.pipelining THEN 4 * (IF args.replicated THEN 2 ELSE 1)
  ELSE IF args.replicated THEN 2 ELSE 0

\* if device_count: dev = opts.device_config.add(); dev.auto_count = ...
device_config(args) ==
  IF device_count(args) # 0 THEN <<[auto_count |-> device_count(args)]>>
  ELSE <<>>

\* gen_ipu_ops.ipu_configure_hardware(opts.SerializeToString()), run in a
\* session of its own graph.  The serialized message is kept as the options
\* it encodes.
ipu_configure_hardware(o) == [op |-> "IpuConfigureHardware", config |-> o]

\* The call with neither assertion.
configure_ipu_system_no_assert(args, runs) ==
  LET o == [IpuOptions(args) EXCEPT !.compilation_options = compilation_options(args),
                                    !.device_config = device_config(args)]
  IN [exc |-> "none", opts |-> o, runs |-> Append(runs, ipu_configure_hardware(o))]

\* configure_ipu_system(**args): how it ends, the options it built up to
\* there, and the hardware-configuration operations run so far.
configure_ipu_system(args, runs) ==
  IF args.pipelining /\ IntTruthy(args.device_count_override)
    THEN [exc |-> "AssertionError", opts |-> IpuOptions(args), runs |-> runs]
  ELSE IF args.sharded /\ IntTruthy(args.device_count_override)
    THEN [exc |-> "AssertionError", opts |-> IpuOptions(args), runs |-> runs]
  ELSE
    LET o == [IpuOptions(args) EXCEPT !.compilation_options = compilation_options(args),
                                      !.device_config = device_config(args)]
    IN [exc |-> "none", opts |-> o, runs |-> Append(runs, ipu_configure_hardware(o))]

EngineOpts == {None, <<<<(<<"opt", "1">>)>>>>}

\* The calls of the model: the placement arguments over all their values,
\* the trace switches all off or at their defaults.
ConfigArgs ==
  {[DefaultArgs EXCEPT !.sharded = sh, !.pipelining = pi, !.replicated = re,
                       !.device_count_override = ov, !.engine_opts = eo,
                       !.compilation_trace = tr, !.execution_trace = tr] :
     sh \in BOOLEAN, pi \in BOOLEAN, re \in BOOLEAN,
     ov \in {None} \cup {<<k>> : k \in 0..MaxDevices},
     eo \in EngineOpts, tr \in BOOLEAN}

ConfigureIpuSystem ==
  /\ Len(sess_runs) < MaxRuns
  /\ \E args \in ConfigArgs :
       \E r \in {configure_ipu_system(args, sess_runs)} :
          /\ opts' = <<r.opts>>
          /\ sess_runs' = r.runs
          /\ cfg_call' = <<[args |-> args, exc |-> r.exc]>>
  /\ UNCHANGED <<report_vars, queue_vars, scope_vars, move_vars>>

NextSystem == ConfigureIpuSystem

SpecSystem == Init /\ [][NextSystem]_vars

(***************************************************************************)
(* Claims on configure_ipu_system.  An override of None or 0 counts as no  *)
(* override, as it does in every test of the code.                         *)
(***************************************************************************)
Configured == cfg_call # <<>> /\ cfg_call[1].exc = "none"

Overridden(args) == IntTruthy(args.device_count_override)

\* The device count the claim gives a call.
ClaimedDeviceCount(args) ==
  IF Overridden(args) THEN args.device_count_override[1]
  ELSE IF args.sharded \/ args.pipelining
         THEN (IF args.replicated THEN 4 ELSE 2)
  ELSE IF args.replicated THEN 2 ELSE 0

(***************************************************************************)
(* C21, as claimed: after a call that returns, the options hold one device *)
(* configuration entry with count 2 when sharded or pipelining is asked    *)
(* for, 4 when it is also replicated, 2 when only replicated is asked for, *)
(* the override when one is given, and no entry at all otherwise.          *)
(***************************************************************************)
C21_TwoDevicesWhenShardedOrPipelining ==
  Configured =>
    opts[1].device_config =
      IF ClaimedDeviceCount(cfg_call[1].args) = 0 THEN <<>>
      ELSE <<[auto_count |-> ClaimedDeviceCount(cfg_call[1].args)]>>

(***************************************************************************)
(* C22: every call that combines an override with pipelining or with       *)
(* sharded ends with AssertionError, and that call adds no                 *)
(* hardware-configuration operation to those run so far; every other call  *)
(* returns and runs exactly one, on the options it built.                  *)
(***************************************************************************)
C22_OverrideWithPipeliningOrShardedRefused ==
  [][cfg_call' # <<>> /\ <<cfg_call, opts, sess_runs>>' # <<cfg_call, opts, sess_runs>> =>
       IF Overridden(cfg_call'[1].args)
            /\ (cfg_call'[1].args.pipelining \/ cfg_call'[1].args.sharded)
         THEN cfg_call'[1].exc = "AssertionError" /\ sess_runs' = sess_runs
         ELSE /\ cfg_call'[1].exc = "none"
              /\ sess_runs' = Append(sess_runs, ipu_configure_hardware(opts'[1]))]_vars

C22_Witness ==
  /\ cfg_call # <<>>
  /\ cfg_call[1].args.pipelining
  /\ ~cfg_call[1].args.sharded
  /\ cfg_call[1].args.device_count_override = <<2>>
  /\ cfg_call[1].exc = "AssertionError"
  /\ sess_runs = <<>>

(***************************************************************************)
(* Frontend attributes.  ipu.scopes.frontend_attribute and Graph.create_op *)
(* are not part of the sources at hand: the scope is modelled as the tests *)
(* of frontend_attributes_test.py use it, a context manager that adds one  *)
(* key/value pair to the attributes given to the ops created inside it and *)
(* restores the previous attributes when it is left.                       *)
(* _getFrontendAttributes is the helper of the test file.                  *)
(***************************************************************************)
MaxDepth == 3

MaxOps == 3

FRONTEND_ATTRIBUTES_NAME == "_XlaFrontendAttributes"

\* The key/value pairs the tests open scopes with.
ScopeArgs == {<<"attr_a", "a">>, <<"attr_a", "c">>, <<"attr_b", "b">>}

\* The attributes in force: those of the innermost scope, none outside.
attributes_in_force(scopes) ==
  IF scopes = <<>> THEN EmptyDict ELSE scopes[Len(scopes)].attributes

\* with ipu.scopes.frontend_attribute(key, value): entering.
frontend_attribute_enter(scopes, key, value) ==
  Append(scopes, [key |-> key, value |-> value,
                  attributes |-> DictPut(attributes_in_force(scopes), key, value)])

\* with ipu.scopes.frontend_attribute(key, value): leaving.
frontend_attribute_exit(scopes) == SubSeq(scopes, 1, Len(scopes) - 1)

\* ops.get_default_graph().create_op("FloatOutput", [], [float32], name):
\* the op carries the serialized FrontendAttributes of the scopes around
\* it, and no such attribute outside every scope.
create_op(scopes, name) ==
  [name |-> name,
   attrs |-> IF scopes = <<>> THEN EmptyDict
             ELSE DictPut(EmptyDict, FRONTEND_ATTRIBUTES_NAME,
                          [map |-> attributes_in_force(scopes)])]

\* op.get_attr(name): ValueError for an attribute the op does not have.
get_attr(op, name) ==
  IF name \in DOMAIN op.attrs THEN Ok(op.attrs[name]) ELSE Raise("ValueError", <<>>)

\* The helper answering an empty FrontendAttributes in place of None.
getFrontendAttributes_empty(op) ==
  LET a == get_attr(op, FRONTEND_ATTRIBUTES_NAME)
  IN IF a.exc = "ValueError" THEN <<[map |-> EmptyDict]>> ELSE <<a.val>>

\* _getFrontendAttributes(op): None, or <<attributes>>.
getFrontendAttributes(op) ==
  LET a == get_attr(op, FRONTEND_ATTRIBUTES_NAME)
  IN IF a.exc = "ValueError" THEN None ELSE <<a.val>>

OpNames == [i \in 1..(MaxOps + 1) |-> <<"myop1", "myop2", "myop3", "myop4", "myop5">>[i]]

EnterScope ==
  /\ Len(attr_scopes) < MaxDepth
  /\ \E kv \in ScopeArgs :
       attr_scopes' = frontend_attribute_enter(attr_scopes, kv[1], kv[2])
  /\ UNCHANGED created
  /\ UNCHANGED <<report_vars, queue_vars, system_vars, move_vars>>

LeaveScope ==
  /\ attr_scopes # <<>>
  /\ attr_scopes' = frontend_attribute_exit(attr_scopes)
  /\ UNCHANGED created
  /\ UNCHANGED <<report_vars, queue_vars, system_vars, move_vars>>

\* An op is created and the test reads its frontend attributes.
CreateOp ==
  /\ Len(created) < MaxOps
  /\ \E op \in {create_op(attr_scopes, OpNames[Len(created) + 1])} :
       created' = Append(created, [op |-> op, read |-> getFrontendAttributes(op)])
  /\ UNCHANGED attr_scopes
  /\ UNCHANGED <<report_vars, queue_vars, system_vars, move_vars>>

NextScopes == EnterScope \/ LeaveScope \/ CreateOp

SpecScopes == Init /\ [][NextScopes]_vars

(***************************************************************************)
(* C23: the attributes read from an op are those of the scopes open when   *)
(* it was created: for every key the value of the innermost open scope     *)
(* with that key, no key that no open scope has, and None when no scope is *)
(* open; entering and leaving a scope is a push and a pop.                 *)
(***************************************************************************)
ScopeKeys(scopes) == {scopes[i].key : i \in 1..Len(scopes)}

Innermost(scopes, key) ==
  scopes[CHOOSE i \in 1..Len(scopes) :
           /\ scopes[i].key = key
           /\ \A j \in (i + 1)..Len(scopes) : scopes[j].key # key].value

ExpectedAttributes(scopes) ==
  IF scopes = <<>> THEN None
  ELSE <<[map |-> [k \in ScopeKeys(scopes) |-> Innermost(scopes, k)]]>>

MaxStages == 3

Digits == <<"0", "1", "2", "3", "4", "5", "6", "7", "8", "9">>

\* "%d" % k for k >= 0.
RECURSIVE Decimal(_)
Decimal(k) ==
  IF k < 10 THEN <<Digits[k + 1]>>
  ELSE Append(Decimal(k \div 10), Digits[(k % 10) + 1])

\* "*_stage_%d_" % k.
stage_pattern(k) ==
  <<"*", "_", "s", "t", "a", "g", "e", "_">> \o Decimal(k) \o <<"_">>

\* list(d.keys()): the keys of a dict, each once.
RECURSIVE KeyList(_)
KeyList(keys) ==
  IF keys = {} THEN <<>>
  ELSE LET k == CHOOSE x \in keys : TRUE
       IN <<k>> \o KeyList(keys \ {k})

\* The loop over enumerate(expected_ipus), from index i on.
RECURSIVE stage_loop(_, _, _)
stage_loop(tm, expected_ipus, i) ==
  IF i >= Len(expected_ipus) THEN Ok(<<>>)
  ELSE
    LET stage == items_matching_at_least_one_pattern(
                   KeyList(computation_names(tm)), <<stage_pattern(i)>>)
        ipus == ipu_ids(tm, ListArg(stage))
    IN IF stage = <<>> THEN Raise("AssertionError", "No stage found")
       ELSE IF ipus.exc # "none" THEN Raise(ipus.exc, "")
       ELSE IF Cardinality(ipus.val) # 1
         THEN Raise("AssertionError", "Stage was mapped to more than one ipu")
       ELSE IF ipus.val # {expected_ipus[i + 1]}
         THEN Raise("AssertionError", "Stage did not run on the expected IPU")
       ELSE stage_loop(tm, expected_ipus, i + 1)

\* ReportJSON.assert_pipeline_stages_on_expected_ipu(expected_ipus).
assert_pipeline_stages_on_expected_ipu(self, expected_ipus) ==
  IF ~self.has_attrs \/ self.tensor_map = None
    THEN Raise("AttributeError", "")
  ELSE IF items_matching_at_least_one_pattern(
            KeyList(computation_names(self.tensor_map[1])),
            <<stage_pattern(Len(expected_ipus) + 1)>>) # <<>>
    THEN Raise("AssertionError",
               "The number of expected_ipus does not match the number of stages")
  ELSE stage_loop(self.tensor_map[1], expected_ipus, 0)

\* The name of the computation of pipeline stage k.
StageName(k) ==
  <<"p", "_", "s", "t", "a", "g", "e", "_">> \o Decimal(k) \o <<"_", "f">>

\* The JSON of a tensor map of the computation c on tile 3 and of one
\* computation per pipeline stage, stage k - 1 with one tensor on the tiles
\* placements[k].
StageMapJson(placements) ==
  [mappings |->
     [comp \in {<<"c">>} \cup {StageName(k - 1) : k \in 1..Len(placements)} |->
        IF comp = <<"c">> THEN <<JsTensor("c", <<3>>)>>
        ELSE LET k == CHOOSE j \in 1..Len(placements) : StageName(j - 1) = comp
             IN <<JsTensor("s", placements[k])>>]]

\* One stage on IPU 0, on IPU 1, or across both (2 tiles per IPU).
StagePlacements == {<<0>>, <<2>>, <<1, 2>>}

StageEvents ==
  {CompileEndEvent(Txt("json", ReportJson(2, 4)),
                   Txt("json", StageMapJson(pl)), Txt("json", InfoJson)) :
     pl \in UNION {[1..k -> StagePlacements] : k \in 0..MaxStages}}

ExpectedIpus == UNION {[1..k -> 0..1] : k \in 0..MaxStages}

\* parse_events([evt]) on a new object, evt a COMPILE_END event.
DecodeStages ==
  /\ pc = "idle"
  /\ ~has_attrs
  /\ \E evt \in StageEvents :
       \E r \in {parse_loop(reset(Self), EmptyDict, <<evt>>)} :
          /\ input' = <<evt>>
          /\ n' = 1
          /\ has_attrs' = r.val.has_attrs
          /\ events' = r.val.events
          /\ tensor_map' = r.val.tensor_map
          /\ instruction_info' = r.val.instruction_info
          /\ events_types' = r.hist
          /\ result' = IF r.exc = "none" THEN "returned" ELSE r.exc
          /\ ret' = IF r.exc = "none" THEN r.hist ELSE EmptyDict
  /\ UNCHANGED <<pc, assert_len, assert_msg, err_msg, redecode, qres>>
  /\ UNCHANGED <<queue_vars, tool_vars>>

\* assert_pipeline_stages_on_expected_ipu(expected_ipus) on the decoded
\* object.
AssertStages ==
  /\ pc = "idle"
  /\ result = "returned"
  /\ \E e \in ExpectedIpus :
       qres' = <<[query |-> "assert_pipeline_stages_on_expected_ipu", arg |-> e,
                  ans |-> assert_pipeline_stages_on_expected_ipu(Self, e)]>>
  /\ UNCHANGED <<has_attrs, events, tensor_map, instruction_info, pc, n,
                 assert_len, assert_msg, events_types, input, result, ret,
                 err_msg, redecode>>
  /\ UNCHANGED <<queue_vars, tool_vars>>

NextStages == DecodeStages \/ AssertStages

SpecStages == Init /\ [][NextStages]_vars

(***************************************************************************)
(* C24, as claimed: the assertion fails whenever the number of expected    *)
(* IPUs differs from the number of stages of the tensor map, in particular *)
(* with exactly one stage more than expected IPUs; with equal numbers it   *)
(* passes if and only if the tiles of every stage i all lie on the IPU     *)
(* expected_ipus[i].                                                       *)
(***************************************************************************)
StagesAsked ==
  qres # <<>> /\ qres[1].query = "assert_pipeline_stages_on_expected_ipu"

\* The stages of the decoded payload: the tiles of stage k - 1 at index k.
PayloadStages ==
  LET js_map == input[1].tensor_map.val
      count == Cardinality(DOMAIN js_map.mappings) - 1
  IN [k \in 1..count |-> PayloadTilesOf(js_map, StageName(k - 1))]

\* The IPU of a tile of the target of the model: 4 tiles on 2 IPUs.
StageIpu(t) == t \div 2

C24_StageCountMismatchFails ==
  StagesAsked =>
    LET e == qres[1].arg
        passes == qres[1].ans.exc = "none"
    IN IF Len(e) # Len(PayloadStages) THEN qres[1].ans.exc = "AssertionError"
       ELSE passes <=>
              \A k \in 1..Len(e) :
                 {StageIpu(t) : t \in PayloadStages[k]} = {e[k]}

(***************************************************************************)
(* move_variable_initialization_to_cpu on the default graph.  The graph is *)
(* built once (BuildGraph); the function then runs statement by statement: *)
(* the lists are set up (MoveStart), the while loop pops one op per step   *)
(* (MoveLoop) and the for loop places the ops found (MoveSetDevices).      *)
(***************************************************************************)
MaxInputs == 1

\* The ops of the graph.
MoveOps == {"a", "b", "c"}

IPU_DEVICE == "/device:IPU:0"

CPU_DEVICE == "/device:CPU:0"

\* The lists of at most k ops, as [x.op for x in op.inputs] can be.
OpLists(k) == UNION {[1..j -> MoveOps] : j \in 0..k}

\* The graphs of the model: every op has at most MaxInputs inputs, among
\* them itself and ops that reach it; the variables of the collection have
\* their initial values computed by the ops of `values'.
MoveGraphs ==
  {[inputs |-> ins, values |-> vals,
    device |-> [o \in MoveOps |-> IPU_DEVICE],
    attrs |-> [o \in MoveOps |-> EmptyDict]] :
     ins \in [MoveOps -> OpLists(MaxInputs)],
     vals \in {<<>>, <<"a">>, <<"a", "b">>, <<"a", "a">>}}

\* [x.initializer.inputs[1].op for x in graph.get_collection('variables')].
initial_dep_ops(g) == g.values

\* One iteration of the while loop with dep_ops = in place of dep_ops +=.
move_loop_body_assign(g, dep, vis, init) ==
  LET op == dep[Len(dep)]
  IN IF op \notin vis
       THEN [dep_ops |-> g.inputs[op],
             visited |-> vis \cup {op}, init_ops |-> Append(init, op)]
       ELSE [dep_ops |-> SubSeq(dep, 1, Len(dep) - 1), visited |-> vis,
             init_ops |-> init]

\* One iteration of the while loop: op = dep_ops.pop(); if not op in
\* visited: visited.add(op); init_ops += [op]; dep_ops += its input ops.
move_loop_body(g, dep, vis, init) ==
  LET op == dep[Len(dep)]
      rest == SubSeq(dep, 1, Len(dep) - 1)
  IN IF op \notin vis
       THEN [dep_ops |-> rest \o g.inputs[op],
             visited |-> vis \cup {op}, init_ops |-> Append(init, op)]
       ELSE [dep_ops |-> rest, visited |-> vis, init_ops |-> init]

\* The attributes set on an op that is moved.
cpu_attrs(attrs) ==
  DictPut(DictPut(DictPut(attrs, "_class", <<"loc:@cpu">>),
                  "_XlaCompile", <<FALSE>>), "_XlaScope", <<"">>)

\* for op in init_ops: op._set_device(...); op._set_attr(...) three times.
set_devices(g, init) ==
  LET moved == {init[i] : i \in 1..Len(init)}
  IN [g EXCEPT !.device = [o \in MoveOps |->
                             IF o \in moved THEN CPU_DEVICE ELSE g.device[o]],
               !.attrs = [o \in MoveOps |->
                            IF o \in moved THEN cpu_attrs(g.attrs[o])
                            ELSE g.attrs[o]]]

BuildGraph ==
  /\ mgraph = <<>>
  /\ \E g \in MoveGraphs : mgraph' = <<g>>
  /\ UNCHANGED <<dep_ops, visited, init_ops, mv_pc>>
  /\ UNCHANGED <<report_vars, queue_vars, system_vars, scope_vars>>

MoveStart ==
  /\ mgraph # <<>>
  /\ mv_pc = "idle"
  /\ init_ops' = <<>>
  /\ dep_ops' = initial_dep_ops(mgraph[1])
  /\ visited' = {}
  /\ mv_pc' = "loop"
  /\ UNCHANGED mgraph
  /\ UNCHANGED <<report_vars, queue_vars, system_vars, scope_vars>>

MoveLoop ==
  /\ mv_pc = "loop"
  /\ dep_ops # <<>>
  /\ \E r \in {move_loop_body(mgraph[1], dep_ops, visited, init_ops)} :
       /\ dep_ops' = r.dep_ops
       /\ visited' = r.visited
       /\ init_ops' = r.init_ops
  /\ UNCHANGED <<mgraph, mv_pc>>
  /\ UNCHANGED <<report_vars, queue_vars, system_vars, scope_vars>>

MoveSetDevices ==
  /\ mv_pc = "loop"
  /\ dep_ops = <<>>
  /\ mgraph' = <<set_devices(mgraph[1], init_ops)>>
  /\ mv_pc' = "done"
  /\ UNCHANGED <<dep_ops, visited, init_ops>>
  /\ UNCHANGED <<report_vars, queue_vars, system_vars, scope_vars>>

NextMove == BuildGraph \/ MoveStart \/ MoveLoop \/ MoveSetDevices

SpecMove == Init /\ [][NextMove]_vars

\* The function is one thread of control: once called it keeps running.
SpecMoveFair == SpecMove /\ WF_vars(MoveStart \/ MoveLoop \/ MoveSetDevices)

(***************************************************************************)
(* C25: every call ends, on graphs with cycles and shared inputs too; the  *)
(* loop lists every op at most once and only ops reachable through inputs  *)
(* from the op of a variable's initial value; at the end the listed ops    *)
(* are exactly the reachable ones, they are on /device:CPU:0 with          *)
(* _XlaCompile false, and every other op is as it was built.               *)
(***************************************************************************)
RECURSIVE InputClosure(_, _)
InputClosure(g, ops) ==
  LET more == ops \cup UNION {{g.inputs[o][i] : i \in 1..Len(g.inputs[o])} : o \in ops}
  IN IF more = ops THEN ops ELSE InputClosure(g, more)

ReachableFromVariables(g) ==
  InputClosure(g, {g.values[i] : i \in 1..Len(g.values)})

Listed25 == {init_ops[i] : i \in 1..Len(init_ops)}

C25_MoveTerminatesOnReachableOps ==
  /\ (mv_pc = "loop") ~> (mv_pc = "done")
  /\ [](mv_pc # "idle" =>
          /\ \A i, j \in 1..Len(init_ops) : init_ops[i] = init_ops[j] => i = j
          /\ Listed25 = visited
          /\ Listed25 \subseteq ReachableFromVariables(mgraph[1]))
  /\ [](mv_pc = "done" =>
          /\ Listed25 = ReachableFromVariables(mgraph[1])
          /\ \A o \in MoveOps :
               IF o \in ReachableFromVariables(mgraph[1])
                 THEN /\ mgraph[1].device[o] = CPU_DEVICE
                      /\ mgraph[1].attrs[o]["_XlaCompile"] = <<FALSE>>
                 ELSE /\ mgraph[1].device[o] = IPU_DEVICE
                      /\ mgraph[1].attrs[o] = EmptyDict)

\* The variables' values a and b share the input c, and c takes a as its
\* input: a cycle through a and c.
C25_Witness ==
  /\ mv_pc = "done"
  /\ mgraph[1].values = <<"a", "b">>
  /\ mgraph[1].inputs["a"] = <<"c">>
  /\ mgraph[1].inputs["b"] = <<"c">>
  /\ mgraph[1].inputs["c"] = <<"a">>
  /\ init_ops = <<"b", "c", "a">>

(***************************************************************************)
(* C26, as claimed: after a parse_events call that returns, the tensor map *)
(* is present if and only if a COMPILE_END report is stored, and the       *)
(* report, the tensor map and the instruction info are those of one and    *)
(* the same COMPILE_END event of the list.                                 *)
(***************************************************************************)
Returned == pc = "idle" /\ result = "returned"

\* The COMPILE_END events of the list whose report was decoded and stored.
StoredReports ==
  {j \in 1..Len(input) :
     /\ input[j].type = "COMPILE_END"
     /\ input[j].compilation_report.enc = "json"}

C26_TensorMapIffReport ==
  Returned =>
    /\ tensor_map # None <=> "COMPILE_END" \in DOMAIN events
    /\ "COMPILE_END" \in DOMAIN events =>
         \E j \in StoredReports :
            /\ events["COMPILE_END"] = input[j].compilation_report.val
            /\ input[j].tensor_map.enc = "json"
            /\ tensor_map[1].mappings =
                 TensorMap_init(input[j].tensor_map.val, 0).mappings
            /\ input[j].instruction_info.enc = "json"
            /\ instruction_info = input[j].instruction_info.val

(***************************************************************************)
(* C27: a parse_events call that fails its expected-count check leaves the *)
(* decoded attributes (events, tensor map, instruction info) as the        *)
(* previous call left them: neither binding the arguments nor the failing  *)
(* check changes them, so the derived queries, which read only these       *)
(* attributes, answer as before the call.                                  *)
(***************************************************************************)
C27_FailedCheckKeepsState ==
  [][/\ pc' = "check" => Self' = Self
     /\ (pc = "check" /\ result' = "CountMismatch") =>
          /\ Self' = Self
          /\ get_tensor_map(Self') = get_tensor_map(Self)
          /\ get_compute_sets(Self') = get_compute_sets(Self)]_vars

C27_Witness ==
  /\ pc = "idle"
  /\ result = "CountMismatch"
  /\ "COMPILE_END" \in DOMAIN events
  /\ tensor_map # None
  /\ instruction_info # EmptyDict

(***************************************************************************)
(* C28: the assert of a singleton kind looks only at what is stored.  A    *)
(* non-empty payload of a singleton kind ends the call with an             *)
(* AssertionError exactly when an earlier payload of its kind was stored;  *)
(* after payloads of the kind that were skipped as undecodable, the first  *)
(* decodable one is stored; and when a duplicate ends the call, the        *)
(* payload stored for the kind is the first one that was stored.           *)
(***************************************************************************)
StoredOfKind(j) ==
  {i \in 1..j : input[i].type = input[j].type /\ Payload(input[i]).enc = "json"}

FirstStored(j) == CHOOSE i \in StoredOfKind(j) : \A m \in StoredOfKind(j) : i <= m

SkippedBefore(j) ==
  \E i \in 1..(j - 1) :
    input[i].type = input[j].type /\ Payload(input[i]).enc = "bad_utf8"

C28_OnlyStoredPayloadsCount ==
  \A j \in 1..Len(input) :
    (input[j].type \in SingletonKinds /\ HasPayload(input[j])) =>
      /\ (RaisedAt(j) /\ result = "AssertionError") <=> (RaisedAt(j) /\ Duplicate(j))
      /\ (~StoredBefore(j) /\ Payload(input[j]).enc = "json") =>
           /\ input[j].type \in DOMAIN events
           /\ events[input[j].type] = Payload(input[j]).val
      /\ (RaisedAt(j) /\ Duplicate(j)) =>
           events[input[j].type] = Payload(input[FirstStored(j)]).val

C28_Witness ==
  /\ pc = "idle"
  /\ result = "AssertionError"
  /\ Len(input) = 3
  /\ input[3].type \in TransferKinds
  /\ SkippedBefore(2)
  /\ StoredOfKind(3) = {2, 3}
  /\ Payload(input[3]).val # Payload(input[2]).val
  /\ events[input[3].type] = Payload(input[2]).val

(***************************************************************************)
(* C29: for one pattern list, names_in_blacklist and                       *)
(* missing_names_in_whitelist_entries split the names: there are two       *)
(* disjoint sets of positions of the name list, together holding every     *)
(* position of a non-empty name, such that the first result is the names   *)
(* at the first set and the second result the names at the second set,     *)
(* each in input order; no name is in both results, and no empty name is   *)
(* in the second.                                                          *)
(***************************************************************************)
\* The elements of s at the positions in A, in the order of s.
Pick(s, A) ==
  LET idx(k) == CHOOSE i \in A : Cardinality({m \in A : m <= i}) = k
  IN [k \in 1..Cardinality(A) |-> s[idx(k)]]

Range(s) == {s[i] : i \in DOMAIN s}

C29_BlacklistAndMissingSplitNames ==
  HelpersAsked =>
    LET names == qres[1].arg.names
        bl == qres[1].ans.blacklisted
        mn == qres[1].ans.missing_names
        nonempty == {i \in 1..Len(names) : names[i] # <<>>}
    IN /\ \E A \in SUBSET (1..Len(names)) :
            /\ bl = Pick(names, A)
            /\ mn = Pick(names, nonempty \ A)
       /\ Range(bl) \cap Range(mn) = {}
       /\ <<>> \notin Range(mn)

C29_Witness ==
  /\ HelpersAsked
  /\ Len(qres[1].arg.patterns) = 2
  /\ Len(qres[1].arg.names) = 2
  /\ qres[1].arg.names[1] # <<>>
  /\ qres[1].ans.missing_names = <<qres[1].arg.names[1]>>
  /\ qres[1].ans.blacklisted = <<qres[1].arg.names[2]>>

(***************************************************************************)
(* C30: the two flags of the queue are independent.  An access of          *)
(* initializer, successful or not, leaves dequeued as it was; a _dequeue   *)
(* call never fails and leaves unchanged whether initializer was accessed; *)
(* so the first access of initializer succeeds however many _dequeue calls *)
(* came before it, and _dequeue succeeds after any access of initializer.  *)
(***************************************************************************)
C30_FlagsIndependent ==
  /\ [][(QueueBuilt /\ calls'.initializer # calls.initializer) =>
          queue'[1]._dequeued = queue[1]._dequeued]_vars
  /\ [][(QueueBuilt /\ calls'.dequeue # calls.dequeue) =>
          /\ queue'[1]._initialized = queue[1]._initialized
          /\ last'.ans.exc = "none"]_vars
  /\ []((last.op = "initializer" /\ calls.initializer = 1) => last.ans.exc = "none")

C30_Witness ==
  /\ last.op = "initializer"
  /\ last.ans.exc = "none"
  /\ calls.initializer = 1
  /\ calls.dequeue = MaxCalls
  /\ queue[1]._dequeued
  /\ queue[1]._initialized

====
